---- MODULE Spec2Model ----
(***************************************************************************)
(* umlit: DSL text -> AST -> flat Diagram -> positioned Diagram.           *)
(*                                                                         *)
(* Part 1 models the diagram builder convertASTToDiagram of                *)
(* src/src/parser/index.ts (flattening by processNode and the              *)
(* boundary-crossing connector synthesis).                                 *)
(* Part 2 models the two layout engines: autoLayoutNodes of                *)
(* src/unnamed/part_001 (flat node list) and applyAutoLayout of            *)
(* src/src/layout/layoutEngine.ts (AST).                                   *)
(* Part 3 models the front end: the lexer of src/src/parser/lexer.ts, the  *)
(* parser parseToAST of src/src/parser/astParser.ts, parseDiagram of       *)
(* src/src/parser/index.ts, and the two stores with their serializers.     *)
(*                                                                         *)
(* The AST is kept as an arena: rootNodes is the ordered list of root ids, *)
(* children[id] the ordered child ids of a node, ports[id] its ports and   *)
(* pos[id] its coordinates (has = FALSE while the node has none: its line  *)
(* carries no "@ x,y" and no layout has run) and size[id] its width and    *)
(* height.  Strings of the DSL that the code inspects character by         *)
(* character (the interface notation) are sequences of one-character       *)
(* strings; an absent optional string field is Undefined and an absent     *)
(* edgeType is the empty sequence NoType.                                  *)
(***************************************************************************)
EXTENDS Integers, Sequences, FiniteSets, TLC

VARIABLES pc, ast, diagram, engine, trace, runs, first, code, tokens, result, parser

vars == <<pc, ast, diagram, engine, trace, runs, first, code, tokens, result, parser>>

\* the text in the editor, the tokens the lexer made of it, what the last call
\* of the front end returned, and the parser as that call left it
frontEnd == <<code, tokens, result, parser>>

----------------------------------------------------------------------------
(* Bounds of the model *)

\* number of declared nodes in an AST handed to the builder
MaxAstNodes == 4
\* number of ball/socket characters between the dashes of an interface notation
MaxSymbols == 3
\* number of declared nodes in a document handed to a layout engine
MaxLayoutNodes == 6
\* number of declared nodes in a document whose edges end at ports
MaxLinkedNodes == 3
\* number of times the layout is applied in a row
MaxRuns == 2

----------------------------------------------------------------------------
(* Generic helpers *)

Undefined == "undefined"
NoType == << >>

NodeNames == <<"n1", "n2", "n3", "n4", "n5", "n6", "n7", "n8", "n9">>

\* an identifier that is used as a connector endpoint but never declared as a node
Ext == "Ext"

Sides == {"left", "right", "top", "bottom"}

\* Array.prototype.findIndex, 1-based; 0 when no element satisfies Test
FindIndex(s, Test(_)) ==
  IF \E i \in 1..Len(s) : Test(s[i])
  THEN CHOOSE i \in 1..Len(s) : Test(s[i]) /\ \A j \in 1..(i - 1) : ~Test(s[j])
  ELSE 0

\* String.prototype.includes on character sequences
Includes(s, pat) ==
  \E i \in 1..(Len(s) - Len(pat) + 1) : SubSeq(s, i, i + Len(pat) - 1) = pat

RECURSIVE SeqsOver(_, _)
SeqsOver(S, n) ==
  IF n = 0 THEN {<< >>}
  ELSE {Append(s, x) : s \in SeqsOver(S, n - 1), x \in S}

----------------------------------------------------------------------------
(* Part 1: the diagram builder *)

EmptyDiagram == [nodes |-> << >>, ports |-> << >>, connectors |-> << >>]

\* The recursion of processNode is unfolded: acc holds the two output lists
\* and pending, the calls of processNode that are still to be made, in the
\* order in which the recursion makes them.

\* processNode with a slip: the children are processed at the depth of their parent
processNode_SameDepth(a, acc, id, parentId, depth) ==
  LET node == [id |-> id,
               x |-> IF a.pos[id].has THEN a.pos[id].x ELSE 0,
               y |-> IF a.pos[id].has THEN a.pos[id].y ELSE 0,
               size |-> a.size[id],
               parentId |-> parentId,
               depth |-> depth,
               children |-> a.children[id]]
      flatPorts == [i \in 1..Len(a.ports[id]) |->
                      [id |-> a.ports[id][i].id,
                       nodeId |-> id,
                       label |-> a.ports[id][i].label,
                       side |-> a.ports[id][i].side]]
      calls == [k \in 1..Len(a.children[id]) |->
                  [id |-> a.children[id][k], parentId |-> id, depth |-> depth]]
  IN [nodes |-> Append(acc.nodes, node), ports |-> acc.ports \o flatPorts,
      pending |-> calls \o acc.pending]

\* processNode(astNode, parentId, depth): the node and its ports are pushed,
\* and the calls of astNode.children.forEach come before every pending call
processNode(a, acc, id, parentId, depth) ==
  LET node == [id |-> id,
               x |-> IF a.pos[id].has THEN a.pos[id].x ELSE 0,
               y |-> IF a.pos[id].has THEN a.pos[id].y ELSE 0,
               size |-> a.size[id],
               parentId |-> parentId,
               depth |-> depth,
               children |-> a.children[id]]
      flatPorts == [i \in 1..Len(a.ports[id]) |->
                      [id |-> a.ports[id][i].id,
                       nodeId |-> id,
                       label |-> a.ports[id][i].label,
                       side |-> a.ports[id][i].side]]
      calls == [k \in 1..Len(a.children[id]) |->
                  [id |-> a.children[id][k], parentId |-> id, depth |-> depth + 1]]
  IN [nodes |-> Append(acc.nodes, node), ports |-> acc.ports \o flatPorts,
      pending |-> calls \o acc.pending]

RECURSIVE processCalls(_, _, _)
\* the next n pending calls: the first half of them, then the rest
processCalls(a, acc, n) ==
  IF n = 0 \/ acc.pending = << >> THEN acc
  ELSE IF n = 1
  THEN LET call == Head(acc.pending)
       IN processNode(a, [acc EXCEPT !.pending = Tail(@)],
                      call.id, call.parentId, call.depth)
  ELSE LET half == processCalls(a, acc, n \div 2)
       IN IF half.pending = << >> THEN half
          ELSE processCalls(a, half, n - (n \div 2))

\* ast.rootNodes.forEach(node => processNode(node)): one call for each node
\* of the tree
FlattenAST(a) ==
  LET calls == [k \in 1..Len(a.rootNodes) |->
                  [id |-> a.rootNodes[k], parentId |-> Undefined, depth |-> 0]]
      done == processCalls(a, [nodes |-> << >>, ports |-> << >>, pending |-> calls],
                           Cardinality(DOMAIN a.children))
  IN [nodes |-> done.nodes, ports |-> done.ports]

getParentId(nodes, nodeId) ==
  LET i == FindIndex(nodes, LAMBDA n : n.id = nodeId)
  IN IF i = 0 THEN Undefined ELSE nodes[i].parentId

\* areSameLevel with a slip: only two nodes without a parent are on one level
areSameLevel_RootsOnly(nodes, nodeId1, nodeId2) ==
  /\ getParentId(nodes, nodeId1) = Undefined
  /\ getParentId(nodes, nodeId2) = Undefined

areSameLevel(nodes, nodeId1, nodeId2) ==
  getParentId(nodes, nodeId1) = getParentId(nodes, nodeId2)

\* c.edgeType?.includes('())')
isSourceProvider(c) ==
  c.edgeType # NoType /\ Includes(c.edgeType, <<"(", ")", ")">>)

\* `port-${c.id}` and `${c.id}-interface`
DefaultPortId(cid) == "port-" \o cid

InterfaceId(cid) == cid \o "-interface"

\* type of the synthesized internal connector
InternalType(c) ==
  IF isSourceProvider(c) THEN <<"-", "(", "(">> ELSE <<"-", "(", ")", ")">>

\* the port lookup with a slip: any port of the container is taken over
FindBoundaryPort_AnyPort(a, ports, c, parent, qual) ==
  FindIndex(ports, LAMBDA p : p.nodeId = parent)

\* the port lookup with a slip: a port with the qualifier's id is taken before
\* a port that refers to the connector by name
FindBoundaryPort_IdFirst(a, ports, c, parent, qual) ==
  LET refIdx == IF c.name # Undefined
                THEN FindIndex(a.ports[parent], LAMBDA p : p.connectorRef = c.name)
                ELSE 0
      byRef == IF refIdx # 0
               THEN FindIndex(ports, LAMBDA p : p.id = a.ports[parent][refIdx].id
                                                /\ p.nodeId = parent)
               ELSE 0
      portId == IF qual # Undefined THEN qual ELSE DefaultPortId(c.id)
      byId == FindIndex(ports, LAMBDA p : p.id = portId /\ p.nodeId = parent)
  IN IF byId # 0 THEN byId ELSE byRef

\* The three-stage port lookup on the container `parent` for connector c whose
\* port qualifier on the nested side is qual: index into ports, 0 when a new
\* port has to be created.
FindBoundaryPort(a, ports, c, parent, qual) ==
  LET refIdx == IF c.name # Undefined
                THEN FindIndex(a.ports[parent], LAMBDA p : p.connectorRef = c.name)
                ELSE 0
      byRef == IF refIdx # 0
               THEN FindIndex(ports, LAMBDA p : p.id = a.ports[parent][refIdx].id
                                                /\ p.nodeId = parent)
               ELSE 0
      portId == IF qual # Undefined THEN qual ELSE DefaultPortId(c.id)
      byId == FindIndex(ports, LAMBDA p : p.id = portId /\ p.nodeId = parent)
  IN IF byRef # 0 THEN byRef ELSE byId

NewBoundaryPort(c, parent, qual, side) ==
  [id |-> IF qual # Undefined THEN qual ELSE DefaultPortId(c.id),
   nodeId |-> parent,
   label |-> c.label,
   side |-> side]

\* the internal connector with a slip: it runs from the nested node to the container
InternalConnector_Reversed(c, parent, nested, portId) ==
  [id |-> InterfaceId(c.id), source |-> nested, target |-> parent,
   sourcePort |-> Undefined, targetPort |-> portId,
   type |-> InternalType(c), label |-> Undefined,
   isDelegate |-> FALSE, stereotype |-> Undefined,
   isAutoGenerated |-> TRUE, isCrossLevel |-> TRUE]

InternalConnector(c, parent, nested, portId) ==
  [id |-> InterfaceId(c.id), source |-> parent, target |-> nested,
   sourcePort |-> portId, targetPort |-> Undefined,
   type |-> InternalType(c), label |-> Undefined,
   isDelegate |-> FALSE, stereotype |-> Undefined,
   isAutoGenerated |-> TRUE, isCrossLevel |-> TRUE]

ExternalConnector(c, outside, parent, portId) ==
  [id |-> c.id, source |-> outside, target |-> parent,
   sourcePort |-> Undefined, targetPort |-> portId,
   type |-> c.edgeType, label |-> c.label,
   isDelegate |-> FALSE, stereotype |-> c.stereotype,
   isAutoGenerated |-> FALSE, isCrossLevel |-> TRUE]

\* the pass-through connector with a slip: the port qualifiers are not copied
PassThroughConnector_NoPorts(c) ==
  [id |-> c.id, source |-> c.sourceNodeId, target |-> c.targetNodeId,
   sourcePort |-> Undefined, targetPort |-> Undefined,
   type |-> c.edgeType, label |-> c.label,
   isDelegate |-> c.isDelegate, stereotype |-> c.stereotype,
   isAutoGenerated |-> FALSE, isCrossLevel |-> FALSE]

\* the pass-through connector with a slip: it runs from the target to the source
PassThroughConnector_Swapped(c) ==
  [id |-> c.id, source |-> c.targetNodeId, target |-> c.sourceNodeId,
   sourcePort |-> c.targetPortId, targetPort |-> c.sourcePortId,
   type |-> c.edgeType, label |-> c.label,
   isDelegate |-> c.isDelegate, stereotype |-> c.stereotype,
   isAutoGenerated |-> FALSE, isCrossLevel |-> FALSE]

PassThroughConnector(c) ==
  [id |-> c.id, source |-> c.sourceNodeId, target |-> c.targetNodeId,
   sourcePort |-> c.sourcePortId, targetPort |-> c.targetPortId,
   type |-> c.edgeType, label |-> c.label,
   isDelegate |-> c.isDelegate, stereotype |-> c.stereotype,
   isAutoGenerated |-> FALSE, isCrossLevel |-> FALSE]

\* body of ast.connectors.forEach(c => ...): d is the diagram built so far
ProcessConnector(a, d, c) ==
  LET sourceParent == getParentId(d.nodes, c.sourceNodeId)
      targetParent == getParentId(d.nodes, c.targetNodeId)
  IN
  IF ~areSameLevel(d.nodes, c.sourceNodeId, c.targetNodeId)
  THEN
    IF sourceParent # Undefined /\ targetParent = Undefined
    THEN LET found == FindBoundaryPort(a, d.ports, c, sourceParent, c.sourcePortId)
             port == IF found # 0 THEN d.ports[found]
                     ELSE NewBoundaryPort(c, sourceParent, c.sourcePortId, "right")
         IN [d EXCEPT
               !.ports = IF found # 0 THEN @ ELSE Append(@, port),
               !.connectors = @ \o
                  << InternalConnector(c, sourceParent, c.sourceNodeId, port.id),
                     ExternalConnector(c, c.targetNodeId, sourceParent, port.id) >>]
    ELSE IF targetParent # Undefined /\ sourceParent = Undefined
    THEN LET found == FindBoundaryPort(a, d.ports, c, targetParent, c.targetPortId)
             port == IF found # 0 THEN d.ports[found]
                     ELSE NewBoundaryPort(c, targetParent, c.targetPortId, "left")
         IN [d EXCEPT
               !.ports = IF found # 0 THEN @ ELSE Append(@, port),
               !.connectors = @ \o
                  << ExternalConnector(c, c.sourceNodeId, targetParent, port.id),
                     InternalConnector(c, targetParent, c.targetNodeId, port.id) >>]
    ELSE IF sourceParent # Undefined /\ targetParent # Undefined
            /\ sourceParent # targetParent
    THEN [d EXCEPT !.connectors = Append(@, PassThroughConnector(c))]
    ELSE d
  ELSE [d EXCEPT !.connectors = Append(@, PassThroughConnector(c))]

RECURSIVE ProcessConnectors(_, _, _)
ProcessConnectors(a, d, cs) ==
  IF cs = << >> THEN d
  ELSE ProcessConnectors(a, ProcessConnector(a, d, Head(cs)), Tail(cs))

convertASTToDiagram(a) ==
  LET flat == FlattenAST(a)
  IN ProcessConnectors(a, [nodes |-> flat.nodes, ports |-> flat.ports,
                           connectors |-> << >>], a.connectors)

----------------------------------------------------------------------------
(* Part 2: the layout engines.                                             *)
(* Coordinates and sizes are JavaScript numbers; the engines only add,     *)
(* subtract, compare and halve them.  The model keeps every length in      *)
(* units of 1/Scale pixel, Scale a power of two, so that each halving the  *)
(* engines perform is exact: Half is defined only on even values.          *)

Scale == 2 ^ 6

Px(n) == n * Scale

\* v / 2
Half(v) == CHOOSE h \in {v \div 2} : 2 * h = v

Max(a, b) == IF a >= b THEN a ELSE b

Min(a, b) == IF a <= b THEN a ELSE b

SetMax(S) == CHOOSE m \in S : \A v \in S : v <= m

SetMin(S) == CHOOSE m \in S : \A v \in S : m <= v

\* Math.ceil(Math.sqrt(n))
CeilSqrt(n) == CHOOSE c \in 0..n : c * c >= n /\ \A b \in 0..(c - 1) : b * b < n

----------------------------------------------------------------------------
(* Part 2a: autoLayoutNodes of src/unnamed/part_001, on the flat node list *)

horizontalSpacing == 300
verticalSpacing == 250
startX == 50
startY == 50

leafWidth == 150
leafHeight == 80
minContainerWidth == 200
minContainerHeight == 120

sidePadding == 80
labelSpace == 40
verticalPadding == 80
childSpacing == 150

\* distance from a port to the root anchored to it
spacing == 400

IndexOfId(nodes, id) == FindIndex(nodes, LAMBDA n : n.id = id)

\* nodes.filter(n => n.parentId === parentId), as the ids in list order
ChildIdsOf(nodes, parentId) ==
  LET sel == SelectSeq(nodes, LAMBDA n : n.parentId = parentId)
  IN [i \in 1..Len(sel) |-> sel[i].id]

\* the centred box of a node of the given size
BoxAround(x, y, b) ==
  [minX |-> x - Half(b.width), maxX |-> x + Half(b.width),
   minY |-> y - Half(b.height), maxY |-> y + Half(b.height)]

\* the four running Math.min / Math.max of a forEach over boxes
Union(boxes) ==
  [minX |-> SetMin({b.minX : b \in boxes}), maxX |-> SetMax({b.maxX : b \in boxes}),
   minY |-> SetMin({b.minY : b \in boxes}), maxY |-> SetMax({b.maxY : b \in boxes})]

RECURSIVE getNodePositionBounds(_, _)
getNodePositionBounds(node, allNodes) ==
  LET childNodes == SelectSeq(allNodes, LAMBDA n : n.parentId = node.id)
      leaf == [width |-> Px(leafWidth), height |-> Px(leafHeight)]
  IN IF node.children = << >> \/ childNodes = << >>
     THEN BoxAround(node.x, node.y, leaf)
     ELSE LET u == Union({getNodePositionBounds(childNodes[i], allNodes) :
                            i \in 1..Len(childNodes)})
          IN [minX |-> u.minX - Px(sidePadding),
              maxX |-> u.maxX + Px(sidePadding),
              minY |-> u.minY - Px(verticalPadding) - Px(labelSpace),
              maxY |-> u.maxY + Px(verticalPadding)]

RECURSIVE getNodeBounds(_, _)
getNodeBounds(node, allNodes) ==
  LET childNodes == SelectSeq(allNodes, LAMBDA n : n.parentId = node.id)
  IN IF node.children = << >> \/ childNodes = << >>
     THEN [width |-> Px(leafWidth), height |-> Px(leafHeight)]
     ELSE LET u == Union({BoxAround(childNodes[i].x, childNodes[i].y,
                                    getNodeBounds(childNodes[i], allNodes)) :
                            i \in 1..Len(childNodes)})
          IN [width |-> Max(Px(minContainerWidth),
                            (u.maxX - u.minX) + Px(sidePadding) * 2),
              height |-> Max(Px(minContainerHeight),
                             (u.maxY - u.minY) + Px(verticalPadding) * 2
                               + Px(labelSpace))]

RECURSIVE moveDescendants(_, _, _, _)
RECURSIVE moveEachDescendant(_, _, _, _)

\* the closures moveDescendants / moveAllDescendants: every node whose parentId
\* is nodeId is shifted by the delta, and so are its descendants
moveDescendants(nodes, nodeId, deltaX, deltaY) ==
  moveEachDescendant(nodes, ChildIdsOf(nodes, nodeId), deltaX, deltaY)

\* descendants.forEach(desc => ...)
moveEachDescendant(nodes, ids, deltaX, deltaY) ==
  IF ids = << >> THEN nodes
  ELSE LET descIndex == IndexOfId(nodes, Head(ids))
           shifted == [nodes EXCEPT ![descIndex].x = @ + deltaX,
                                    ![descIndex].y = @ + deltaY]
       IN moveEachDescendant(moveDescendants(shifted, Head(ids), deltaX, deltaY),
                             Tail(ids), deltaX, deltaY)

RECURSIVE normalizeChildren(_, _)
\* first forEach of layoutChildrenInParent: each child, with its subtree, is moved
\* so that the child sits at the origin
normalizeChildren(nodes, ids) ==
  IF ids = << >> THEN nodes
  ELSE LET childIndex == IndexOfId(nodes, Head(ids))
           deltaX == 0 - nodes[childIndex].x
           deltaY == 0 - nodes[childIndex].y
           atOrigin == [nodes EXCEPT ![childIndex].x = 0, ![childIndex].y = 0]
       IN normalizeChildren(moveDescendants(atOrigin, Head(ids), deltaX, deltaY),
                            Tail(ids))

RECURSIVE stackChildren(_, _, _, _, _)
\* third forEach of layoutChildrenInParent: the vertical stack, currentY running
stackChildren(nodes, ids, index, parentX, currentY) ==
  IF ids = << >> THEN nodes
  ELSE LET childIndex == IndexOfId(nodes, Head(ids))
           updatedChild == nodes[childIndex]
           childBounds == getNodeBounds(updatedChild, nodes)
           childX == parentX
           childY == currentY + (IF index = 0 THEN Half(childBounds.height) ELSE 0)
           deltaX == childX - updatedChild.x
           deltaY == childY - updatedChild.y
           placed == [nodes EXCEPT ![childIndex].x = childX, ![childIndex].y = childY]
       IN stackChildren(moveDescendants(placed, Head(ids), deltaX, deltaY),
                        Tail(ids), index + 1, parentX,
                        childY + Half(childBounds.height) + Px(childSpacing))

RECURSIVE layoutChildrenInParent(_, _, _, _)
RECURSIVE layoutGrandchildren(_, _)

\* second forEach of layoutChildrenInParent
layoutGrandchildren(nodes, ids) ==
  IF ids = << >> THEN nodes
  ELSE layoutGrandchildren(layoutChildrenInParent(Head(ids), 0, 0, nodes), Tail(ids))

layoutChildrenInParent(parentId, parentX, parentY, nodes) ==
  LET children == ChildIdsOf(nodes, parentId)
  IN IF children = << >> THEN nodes
     ELSE stackChildren(layoutGrandchildren(normalizeChildren(nodes, children),
                                            children),
                        children, 0, parentX, parentY)

getNodeParent(nodeId, nodes) ==
  LET i == IndexOfId(nodes, nodeId)
  IN IF i = 0 THEN Undefined ELSE nodes[i].parentId

\* Map.prototype.set on a map kept as a function from its keys
MapSet(m, key, value) ==
  [k \in (DOMAIN m) \cup {key} |-> IF k = key THEN value ELSE m[k]]

\* diagram.ports.find(p => p.id === portId), of which the engine reads the side
\* only: Undefined when no port has that id
FindPortSide(ports, portId) ==
  LET i == FindIndex(ports, LAMBDA p : p.id = portId)
  IN IF i = 0 THEN Undefined ELSE ports[i].side

RECURSIVE portConnections(_, _, _, _)
\* diagram.connectors.forEach(conn => ...) filling the map of port-connected nodes
portConnections(m, conns, ports, nodes) ==
  IF conns = << >> THEN m
  ELSE LET conn == Head(conns)
           m1 == IF conn.targetPort # Undefined
                    /\ getNodeParent(conn.source, nodes) = Undefined
                 THEN MapSet(m, conn.source,
                             [portNodeId |-> conn.target,
                              portId |-> conn.targetPort,
                              side |-> FindPortSide(ports, conn.targetPort)])
                 ELSE IF conn.sourcePort # Undefined
                         /\ getNodeParent(conn.target, nodes) = Undefined
                 THEN MapSet(m, conn.target,
                             [portNodeId |-> conn.source,
                              portId |-> conn.sourcePort,
                              side |-> FindPortSide(ports, conn.sourcePort)])
                 ELSE m
       IN portConnections(m1, Tail(conns), ports, nodes)

\* the positions of a node list, by id
PositionsOf(nodes) ==
  [id \in {nodes[i].id : i \in 1..Len(nodes)} |->
     LET n == nodes[IndexOfId(nodes, id)] IN [x |-> n.x, y |-> n.y]]

\* one placement of pass 2, as the history of a run records it: the root, the
\* branch that placed it, its pass-1 bounding box, and the positions of all
\* nodes when pass 1 had laid out the root's subtree and when pass 2 had placed it
Placement(root, kind, bounds, before, after) ==
  [root |-> root, kind |-> kind, bounds |-> bounds, before |-> before, after |-> after]

RECURSIVE firstPass(_, _)
\* gridNodes.forEach: the root goes to the temporary origin, its subtree is laid
\* out there and its bounds are taken
firstPass(acc, ids) ==
  IF ids = << >> THEN acc
  ELSE LET rootIndex == IndexOfId(acc.nodes, Head(ids))
           atTemp == [acc.nodes EXCEPT ![rootIndex].x = 0, ![rootIndex].y = 0]
           laid == layoutChildrenInParent(Head(ids), 0, 0, atTemp)
           bounds == getNodeBounds(laid[rootIndex], laid)
       IN firstPass([nodes |-> laid,
                     layouts |-> Append(acc.layouts,
                                        [node |-> Head(ids), bounds |-> bounds])],
                    Tail(ids))

\* rowMaxHeights: the largest height of each grid row
rowMaxHeights(layouts, cols) ==
  [row \in 0..((Len(layouts) - 1) \div cols) |->
     SetMax({layouts[i].bounds.height :
               i \in {j \in 1..Len(layouts) : (j - 1) \div cols = row}})]

RECURSIVE cumulativeY(_, _)
\* the value of cumulativeY when rowMaxHeights.forEach visits the row
cumulativeY(rowMax, row) ==
  IF row <= 1 THEN Px(startY)
  ELSE cumulativeY(rowMax, row - 1) + rowMax[row - 2] + Px(verticalSpacing)

\* rowYPositions: the centre line of each grid row
rowYPositions(rowMax, row) ==
  IF row = 0 THEN cumulativeY(rowMax, row) + Half(rowMax[row])
  ELSE cumulativeY(rowMax, row) + Half(rowMax[row - 1]) + Px(verticalSpacing)
         + Half(rowMax[row])

RECURSIVE widthsBefore(_, _, _, _)
\* for (c = 0; c < col; c++) currentX += nodeInCol.bounds.width + horizontalSpacing
widthsBefore(layouts, cols, row, col) ==
  IF col = 0 THEN 0
  ELSE widthsBefore(layouts, cols, row, col - 1)
         + layouts[row * cols + (col - 1) + 1].bounds.width + Px(horizontalSpacing)

RECURSIVE secondPass(_, _, _, _)
\* gridNodeLayouts.forEach((layout, index) => ...): the grid placement
secondPass(acc, layouts, cols, index) ==
  IF index >= Len(layouts) THEN acc
  ELSE LET layout == layouts[index + 1]
           row == index \div cols
           col == index % cols
           newX == Px(startX) + widthsBefore(layouts, cols, row, col)
                     + Half(layout.bounds.width)
           rowY == rowYPositions(rowMaxHeights(layouts, cols), row)
           newY == IF rowY = 0 THEN Px(startY) ELSE rowY
           deltaX == newX - 0
           deltaY == newY - 0
           nodeIndex == IndexOfId(acc.nodes, layout.node)
           placed == [acc.nodes EXCEPT ![nodeIndex].x = newX, ![nodeIndex].y = newY]
           moved == moveDescendants(placed, layout.node, deltaX, deltaY)
       IN secondPass([nodes |-> moved,
                      trace |-> Append(acc.trace,
                                  Placement(layout.node, "grid", layout.bounds,
                                            PositionsOf(acc.nodes), PositionsOf(moved)))],
                     layouts, cols, index + 1)

\* the two switch statements on connection.port.side: the port's coordinate on
\* the box of its owner, and the position one spacing away from it
anchorPosition(bounds, side) ==
  LET centerX == Half(bounds.minX + bounds.maxX)
      centerY == Half(bounds.minY + bounds.maxY)
      width == bounds.maxX - bounds.minX
      height == bounds.maxY - bounds.minY
      portX == CASE side = "left" -> centerX - Half(width)
                 [] side = "right" -> centerX + Half(width)
                 [] OTHER -> centerX
      portY == CASE side = "top" -> centerY - Half(height)
                 [] side = "bottom" -> centerY + Half(height)
                 [] OTHER -> centerY
  IN CASE side = "left" -> [x |-> portX - Px(spacing), y |-> portY]
       [] side = "right" -> [x |-> portX + Px(spacing), y |-> portY]
       [] side = "top" -> [x |-> portX, y |-> portY - Px(spacing)]
       [] side = "bottom" -> [x |-> portX, y |-> portY + Px(spacing)]
       [] OTHER -> [x |-> portX - Px(spacing), y |-> portY]

RECURSIVE placePortConnected(_, _, _)
\* portConnectedNodes.forEach(rootNode => ...): the placement next to a port
placePortConnected(acc, ids, m) ==
  IF ids = << >> THEN acc
  ELSE LET rootId == Head(ids)
           connection == m[rootId]
           \* the rest of the callback, once the root's subtree is laid out
           placeIn(laid) ==
             LET portParent == IndexOfId(laid, connection.portNodeId)
                 new == anchorPosition(getNodePositionBounds(laid[portParent], laid),
                                       connection.side)
                 deltaX == new.x - 0
                 deltaY == new.y - 0
                 nodeIndex == IndexOfId(laid, rootId)
                 placed == [laid EXCEPT ![nodeIndex].x = new.x, ![nodeIndex].y = new.y]
                 recorded(moved) ==
                   [nodes |-> moved,
                    trace |-> Append(acc.trace,
                                Placement(rootId, "port",
                                          getNodeBounds(laid[nodeIndex], laid),
                                          PositionsOf(laid), PositionsOf(moved)))]
             IN IF portParent = 0
                THEN [acc EXCEPT !.nodes = laid]
                ELSE recorded(moveDescendants(placed, rootId, deltaX, deltaY))
       IN IF connection.side = Undefined
          THEN placePortConnected(acc, Tail(ids), m)
          ELSE placePortConnected(
                 placeIn(layoutChildrenInParent(rootId, 0, 0, acc.nodes)),
                 Tail(ids), m)

\* autoLayoutNodes(nodes, diagram) with the default config, together with the
\* record of its pass-2 placements
autoLayoutRun(nodes, d) ==
  LET rootNodes == ChildIdsOf(nodes, Undefined)
      m == portConnections(<< >>, d.connectors, d.ports, nodes)
      portConnectedNodes == SelectSeq(rootNodes, LAMBDA id : id \in DOMAIN m)
      gridNodes == SelectSeq(rootNodes, LAMBDA id : id \notin DOMAIN m)
      cols == CeilSqrt(Len(gridNodes))
      first1 == firstPass([nodes |-> nodes, layouts |-> << >>], gridNodes)
      second == secondPass([nodes |-> first1.nodes, trace |-> << >>],
                           first1.layouts, cols, 0)
  IN IF rootNodes = << >> THEN [nodes |-> nodes, trace |-> << >>]
     ELSE placePortConnected(second, portConnectedNodes, m)

autoLayoutNodes(nodes, d) == autoLayoutRun(nodes, d).nodes

----------------------------------------------------------------------------
(* Part 2b: applyAutoLayout of src/src/layout/layoutEngine.ts, on the AST *)

CHILD_SPACING == 30
LABEL_SPACE == 35
SIDE_PADDING == 20
VERTICAL_PADDING == 20

GRID_HORIZONTAL_SPACING == 200
GRID_VERTICAL_SPACING == 150
GRID_START_X == 50
GRID_START_Y == 50

\* node.x || 0 and node.y || 0
XOf(a, id) == IF a.pos[id].has THEN a.pos[id].x ELSE 0

YOf(a, id) == IF a.pos[id].has THEN a.pos[id].y ELSE 0

SetPos(a, id, x, y) == [a EXCEPT !.pos[id] = [has |-> TRUE, x |-> x, y |-> y]]

SetSize(a, id, b) ==
  [a EXCEPT !.size[id] = [has |-> TRUE, width |-> b.width, height |-> b.height]]

RECURSIVE calculateNodeBounds(_, _)
calculateNodeBounds(a, id) ==
  IF a.children[id] = << >>
  THEN [width |-> Px(leafWidth), height |-> Px(leafHeight)]
  ELSE LET kids == a.children[id]
           u == Union({BoxAround(XOf(a, kids[i]), YOf(a, kids[i]),
                                 calculateNodeBounds(a, kids[i])) :
                         i \in 1..Len(kids)})
       IN [width |-> Max(Px(minContainerWidth),
                         (u.maxX - u.minX) + Px(SIDE_PADDING) * 2),
           height |-> Max(Px(minContainerHeight),
                          (u.maxY - u.minY) + Px(VERTICAL_PADDING) * 2
                            + Px(LABEL_SPACE))]

RECURSIVE layoutChildren(_, _, _, _)
RECURSIVE layoutEachGrandchild(_, _)
RECURSIVE stackEachChild(_, _, _, _, _)

\* node.children.forEach(child => layoutChildren(child, 0, 0))
layoutEachGrandchild(a, ids) ==
  IF ids = << >> THEN a
  ELSE layoutEachGrandchild(layoutChildren(a, Head(ids), 0, 0), Tail(ids))

\* node.children.forEach((child, index) => ...): the vertical stack
stackEachChild(a, ids, index, parentX, currentY) ==
  IF ids = << >> THEN a
  ELSE LET child == Head(ids)
           childBounds == calculateNodeBounds(a, child)
           childX == parentX
           childY == currentY + (IF index = 0 THEN Half(childBounds.height) ELSE 0)
           relaid == layoutChildren(SetPos(a, child, childX, childY),
                                    child, childX, childY)
       IN stackEachChild(relaid, Tail(ids), index + 1, parentX,
                         childY + Half(childBounds.height) + Px(CHILD_SPACING))

layoutChildren(a, id, parentX, parentY) ==
  IF a.children[id] = << >> THEN a
  ELSE LET stacked == stackEachChild(layoutEachGrandchild(a, a.children[id]),
                                     a.children[id], 0, parentX, parentY)
       IN SetSize(stacked, id, calculateNodeBounds(stacked, id))

RECURSIVE moveNodeAndDescendants(_, _, _, _)
RECURSIVE moveEachChild(_, _, _, _)

moveNodeAndDescendants(a, id, dx, dy) ==
  moveEachChild(SetPos(a, id, XOf(a, id) + dx, YOf(a, id) + dy),
                a.children[id], dx, dy)

\* node.children.forEach(child => moveNodeAndDescendants(child, dx, dy))
moveEachChild(a, ids, dx, dy) ==
  IF ids = << >> THEN a
  ELSE moveEachChild(moveNodeAndDescendants(a, Head(ids), dx, dy), Tail(ids), dx, dy)

\* the positions of an AST, by id
TreePositions(a) ==
  [id \in DOMAIN a.pos |-> [x |-> XOf(a, id), y |-> YOf(a, id)]]

RECURSIVE placeRoots(_, _, _)
\* newAST.rootNodes.forEach((rootNode, index) => ...)
placeRoots(acc, cols, index) ==
  IF index >= Len(acc.ast.rootNodes) THEN acc
  ELSE LET rootNode == acc.ast.rootNodes[index + 1]
           row == index \div cols
           col == index % cols
           laid == layoutChildren(acc.ast, rootNode, 0, 0)
           bounds == calculateNodeBounds(laid, rootNode)
           sized == SetSize(laid, rootNode, bounds)
           gridX == Px(GRID_START_X) + col * (bounds.width + Px(GRID_HORIZONTAL_SPACING))
           gridY == Px(GRID_START_Y) + row * (bounds.height + Px(GRID_VERTICAL_SPACING))
           deltaX == gridX - 0
           deltaY == gridY - 0
           moved == moveNodeAndDescendants(sized, rootNode, deltaX, deltaY)
       IN placeRoots([ast |-> moved,
                      trace |-> Append(acc.trace,
                                  Placement(rootNode, "grid", bounds,
                                            TreePositions(sized), TreePositions(moved)))],
                     cols, index + 1)

\* applyAutoLayout(ast), together with the record of its placements
applyAutoLayoutRun(a) ==
  IF a.rootNodes = << >> THEN [ast |-> a, trace |-> << >>]
  ELSE placeRoots([ast |-> a, trace |-> << >>], CeilSqrt(Len(a.rootNodes)), 0)

applyAutoLayout(a) == applyAutoLayoutRun(a).ast

----------------------------------------------------------------------------
(* Inputs of the builder: the ASTs parseToAST can hand over *)

NodeIds(n) == {NodeNames[i] : i \in 1..n}

\* parent vectors: par[i] = 0 for a root, else the index of the parent, which is
\* declared before its children
ParentVectors(n) == {par \in [1..n -> 0..n] : \A i \in 1..n : par[i] < i}

RECURSIVE IdsFrom(_, _, _, _)
\* the ids i..n whose parent index is k, in document order
IdsFrom(par, n, k, i) ==
  IF i > n THEN << >>
  ELSE IF par[i] = k THEN <<NodeNames[i]>> \o IdsFrom(par, n, k, i + 1)
       ELSE IdsFrom(par, n, k, i + 1)

NoPos == [has |-> FALSE, x |-> 0, y |-> 0]

\* width / height of a node the layout has not sized
NoSize == [has |-> FALSE, width |-> 0, height |-> 0]

TreeOf(par, n) ==
  [rootNodes |-> IdsFrom(par, n, 0, 1),
   children |-> [id \in NodeIds(n) |->
                   LET k == CHOOSE i \in 1..n : NodeNames[i] = id
                   IN IdsFrom(par, n, k, 1)],
   ports |-> [id \in NodeIds(n) |-> << >>],
   pos |-> [id \in NodeIds(n) |-> NoPos],
   size |-> [id \in NodeIds(n) |-> NoSize],
   connectors |-> << >>]

Declared(a) == DOMAIN a.children

\* interface notations the lexer accepts: a dash, 1..MaxSymbols parentheses, a dash
Notations ==
  {<<"-">> \o s \o <<"-">> :
     s \in UNION {SeqsOver({"(", ")"}, k) : k \in 1..MaxSymbols}}

Kind(t, del) ==
  [edgeType |-> t, isDelegate |-> del,
   stereotype |-> IF del THEN "delegate" ELSE Undefined]

\* what parseEdge leaves in edgeType / isDelegate / stereotype for each connector
\* token: the raw text of an interface connector or of an arrow, nothing for a
\* delegate arrow
TokenKinds ==
  {Kind(t, FALSE) : t \in Notations}
  \cup {Kind(<<"-", ">">>, FALSE), Kind(NoType, TRUE)}

\* one connector as parseEdge builds it; the first edge without a name gets conn-0
Connector(name, s, t, sp, tp, l, k) ==
  [id |-> IF name # Undefined THEN name ELSE "conn-0",
   name |-> name,
   sourceNodeId |-> s, targetNodeId |-> t,
   sourcePortId |-> sp, targetPortId |-> tp,
   label |-> l,
   isDelegate |-> k.isDelegate, stereotype |-> k.stereotype, edgeType |-> k.edgeType]

EndpointPairs(n) ==
  {st \in (NodeIds(n) \cup {Ext}) \X (NodeIds(n) \cup {Ext}) : st[1] # st[2]}

Qualifiers == {<<Undefined, Undefined>>, <<"p1", Undefined>>, <<Undefined, "p1">>}

\* every connector token, on an unnamed, unlabelled, unqualified edge
TokenConnectors(n) ==
  {Connector(Undefined, st[1], st[2], Undefined, Undefined, Undefined, k) :
     st \in EndpointPairs(n), k \in TokenKinds}

\* names, labels and port qualifiers, on a ball-and-socket edge
AttributeConnectors(n) ==
  {Connector(name, st[1], st[2], q[1], q[2], l, Kind(<<"-", "(", ")", ")", "-">>, FALSE)) :
     name \in {Undefined, "C1"}, st \in EndpointPairs(n), q \in Qualifiers,
     l \in {Undefined, "L"}}

AstPort(i, r) == [id |-> i, label |-> Undefined, side |-> "top", connectorRef |-> r]

\* the port declarations of a document: none, one port, or two ports of one node
PortLists ==
  {<< >>,
   <<AstPort("p1", Undefined)>>,
   <<AstPort("p2", "C1")>>,
   <<AstPort("port-conn-0", Undefined)>>,
   <<AstPort("p1", Undefined), AstPort("p2", "C1")>>}

\* the AST of a document with the tree par, the ports ps declared on node o and
\* the connectors cs
MakeAst(par, o, ps, cs) ==
  [TreeOf(par, MaxAstNodes) EXCEPT !.ports[o] = ps, !.connectors = cs]

----------------------------------------------------------------------------
(* Inputs of the layout engines: documents whose nodes may carry authored  *)
(* coordinates and whose edges may end at a port                           *)

\* the coordinates written after "@" on a node line, in pixels
AuthoredX == 340
AuthoredY == 20

Authored == [has |-> TRUE, x |-> Px(AuthoredX), y |-> Px(AuthoredY)]

\* "port [id] on [node] side" adds the port to the node
DeclarePort(a, node, id, side) ==
  [a EXCEPT !.ports[node] =
     Append(@, [id |-> id, label |-> Undefined, side |-> side,
                connectorRef |-> Undefined])]

\* the edge "s -> t.p", the k-th edge of the document (k = 0, 1)
PortEdge(k, s, t, p) ==
  [Connector(Undefined, s, t, Undefined, p, Undefined, Kind(<<"-", ">">>, FALSE))
     EXCEPT !.id = IF k = 0 THEN "conn-0" ELSE "conn-1"]

\* the document a, extended by the edge "s -> t.p" and, unless side is
\* Undefined, by the declaration of port p on t
WithLink(a, s, t, p, side) ==
  LET declared == IF side = Undefined THEN a ELSE DeclarePort(a, t, p, side)
  IN [declared EXCEPT !.connectors = Append(@, PortEdge(Len(@), s, t, p))]

DeclaredSides == Sides \cup {Undefined}

----------------------------------------------------------------------------
(* The builder as a state machine: parseDiagram's call of convertASTToDiagram *)

\* documents without connectors, documents with one plain edge for each connector
\* token, and documents with one named / labelled / port-qualified edge and
\* declared ports
InitAst ==
  \E par \in ParentVectors(MaxAstNodes) :
    \/ \E o \in NodeIds(MaxAstNodes), ps \in PortLists :
         ast = MakeAst(par, o, ps, << >>)
    \/ \E c \in TokenConnectors(MaxAstNodes) :
         ast = MakeAst(par, NodeNames[1], << >>, <<c>>)
    \/ \E o \in NodeIds(MaxAstNodes), ps \in PortLists,
          c \in AttributeConnectors(MaxAstNodes) :
         ast = MakeAst(par, o, ps, <<c>>)

Init ==
  /\ pc = "parsed"
  /\ InitAst
  /\ diagram = EmptyDiagram
  /\ engine = "flat"
  /\ trace = << >>
  /\ runs = 0
  /\ first = << >>
  /\ code = ""
  /\ tokens = << >>
  /\ result = Undefined
  /\ parser = Undefined

\* parseDiagram: diagram: convertASTToDiagram(ast)
Build ==
  /\ pc = "parsed"
  /\ engine = "flat"
  /\ diagram' = convertASTToDiagram(ast)
  /\ pc' = "built"
  /\ UNCHANGED <<ast, engine, trace, runs, first>>
  /\ UNCHANGED frontEnd

Next == Build

Spec == Init /\ [][Next]_vars

----------------------------------------------------------------------------
(* The layout as a state machine: the store lays the document out, and may *)
(* lay out again what it has laid out before                               *)

\* for either engine, documents of up to MaxLayoutNodes nodes without edges and
\* documents of up to MaxLinkedNodes nodes one of which carries authored
\* coordinates; for the engine that reads the connectors, documents of up to
\* MaxLinkedNodes nodes with one or two edges that end at a port
InitLayoutAst ==
  \/ \E n \in 1..MaxLayoutNodes : \E par \in ParentVectors(n) :
       /\ engine \in {"flat", "tree"}
       /\ ast = TreeOf(par, n)
  \/ \E n \in 1..MaxLinkedNodes : \E par \in ParentVectors(n) : \E id \in NodeIds(n) :
       /\ engine \in {"flat", "tree"}
       /\ ast = [TreeOf(par, n) EXCEPT !.pos[id] = Authored]
  \/ \E n \in 1..MaxLinkedNodes : \E par \in ParentVectors(n) :
       \E s1 \in NodeIds(n), t1 \in NodeIds(n), d1 \in DeclaredSides :
         LET one == WithLink(TreeOf(par, n), s1, t1, "p1", d1)
         IN /\ engine = "flat"
            /\ \/ ast = one
               \/ ast = [one EXCEPT !.pos[s1] = Authored]
               \/ \E s2 \in NodeIds(n), t2 \in NodeIds(n), d2 \in DeclaredSides :
                    ast = WithLink(one, s2, t2, "p2", d2)

InitLayout ==
  /\ pc = "parsed"
  /\ InitLayoutAst
  /\ diagram = EmptyDiagram
  /\ trace = << >>
  /\ runs = 0
  /\ first = << >>
  /\ code = ""
  /\ tokens = << >>
  /\ result = Undefined
  /\ parser = Undefined

\* store.ts autoLayout: diagram.nodes := autoLayoutNodes(diagram.nodes, diagram)
AutoLayout ==
  /\ engine = "flat"
  /\ pc = "built"
  /\ runs < MaxRuns
  /\ \E run \in {autoLayoutRun(diagram.nodes, diagram)} :
        /\ diagram' = [diagram EXCEPT !.nodes = run.nodes]
        /\ trace' = run.trace
        /\ first' = IF runs = 0 THEN PositionsOf(run.nodes) ELSE first
  /\ runs' = runs + 1
  /\ UNCHANGED <<pc, ast, engine>>
  /\ UNCHANGED frontEnd

\* diagramStore.ts runAutoLayout: ast := applyAutoLayout(ast)
RunAutoLayout ==
  /\ engine = "tree"
  /\ runs < MaxRuns
  /\ \E run \in {applyAutoLayoutRun(ast)} :
        /\ ast' = run.ast
        /\ trace' = run.trace
        /\ first' = IF runs = 0 THEN TreePositions(run.ast) ELSE first
  /\ runs' = runs + 1
  /\ UNCHANGED <<pc, diagram, engine>>
  /\ UNCHANGED frontEnd

NextLayout == Build \/ AutoLayout \/ RunAutoLayout

SpecLayout == InitLayout /\ [][NextLayout]_vars

----------------------------------------------------------------------------
(* Vocabulary of the properties, read off the AST itself *)

\* the node whose block declares id; Undefined for a root or an undeclared id
AstParent(a, id) ==
  IF \E p \in Declared(a) : \E i \in 1..Len(a.children[p]) : a.children[p][i] = id
  THEN CHOOSE p \in Declared(a) : \E i \in 1..Len(a.children[p]) : a.children[p][i] = id
  ELSE Undefined

IsNested(a, id) == AstParent(a, id) # Undefined

IsRoot(a, id) == \E i \in 1..Len(a.rootNodes) : a.rootNodes[i] = id

RECURSIVE AncestorCount(_, _)
AncestorCount(a, id) ==
  IF AstParent(a, id) = Undefined THEN 0 ELSE 1 + AncestorCount(a, AstParent(a, id))

\* position of id among its siblings
SiblingIndex(a, id) ==
  LET sibs == IF IsNested(a, id) THEN a.children[AstParent(a, id)] ELSE a.rootNodes
  IN CHOOSE i \in 1..Len(sibs) : sibs[i] = id

RECURSIVE PathOf(_, _)
\* the sibling indices on the way from the document level down to id
PathOf(a, id) ==
  IF IsNested(a, id) THEN Append(PathOf(a, AstParent(a, id)), SiblingIndex(a, id))
  ELSE <<SiblingIndex(a, id)>>

\* p comes before q in a pre-order walk: p is a proper prefix of q, or p branches
\* off to an earlier sibling
PathBefore(p, q) ==
  \/ Len(p) < Len(q) /\ SubSeq(q, 1, Len(p)) = p
  \/ \E k \in 1..Len(p) :
       /\ k <= Len(q)
       /\ SubSeq(p, 1, k - 1) = SubSeq(q, 1, k - 1)
       /\ p[k] < q[k]

DeclaredPortCount(a) ==
  LET RECURSIVE Sum(_)
      Sum(S) == IF S = {} THEN 0
                ELSE LET id == CHOOSE x \in S : TRUE
                     IN Len(a.ports[id]) + Sum(S \ {id})
  IN Sum(Declared(a))

\* exactly one endpoint of c is declared inside a node block
Crossing(a, c) == IsNested(a, c.sourceNodeId) # IsNested(a, c.targetNodeId)

NestedEnd(a, c) ==
  IF IsNested(a, c.sourceNodeId) THEN c.sourceNodeId ELSE c.targetNodeId

OutsideEnd(a, c) ==
  IF IsNested(a, c.sourceNodeId) THEN c.targetNodeId ELSE c.sourceNodeId

Container(a, c) == AstParent(a, NestedEnd(a, c))

\* the port qualifier written on the nested end of c
NestedQualifier(a, c) ==
  IF IsNested(a, c.sourceNodeId) THEN c.sourcePortId ELSE c.targetPortId

\* the container declares a port that the synthesizer would take over for c
HasReusablePort(a, c) ==
  \E i \in 1..Len(a.ports[Container(a, c)]) :
    LET p == a.ports[Container(a, c)][i]
    IN \/ c.name # Undefined /\ p.connectorRef = c.name
       \/ p.id = c.sourcePortId
       \/ p.id = c.targetPortId
       \/ p.id = DefaultPortId(c.id)

IsInterfaceNotation(t) ==
  /\ Len(t) >= 3
  /\ t[1] = "-" /\ t[Len(t)] = "-"
  /\ \A i \in 2..(Len(t) - 1) : t[i] \in {"(", ")"}

ConnectorsWithId(d, cid) ==
  {i \in 1..Len(d.connectors) : d.connectors[i].id = cid}

Built == pc = "built"

SingleConnector == Len(ast.connectors) = 1

TheConnector == ast.connectors[1]

----------------------------------------------------------------------------
(* Properties of the builder *)

\* C1: a connector with exactly one endpoint nested in a container and the other
\* at root level, whose container has no reusable port, makes the builder add
\* exactly one new port, owned by the container, to the flat port list and emit
\* exactly two diagram connectors.
C1_CrossingArity ==
  (Built /\ SingleConnector) =>
    LET c == TheConnector
    IN (/\ Crossing(ast, c)
        /\ IsRoot(ast, OutsideEnd(ast, c))
        /\ ~HasReusablePort(ast, c))
       => /\ Len(diagram.ports) = DeclaredPortCount(ast) + 1
          /\ diagram.ports[Len(diagram.ports)].nodeId = Container(ast, c)
          /\ Len(diagram.connectors) = 2

C1_Witness ==
  /\ Built /\ SingleConnector
  /\ Crossing(ast, TheConnector)
  /\ IsRoot(ast, OutsideEnd(ast, TheConnector))
  /\ ~HasReusablePort(ast, TheConnector)
  /\ Len(ast.ports[Container(ast, TheConnector)]) > 0
  /\ Len(diagram.connectors) = 2

\* the symbol a notation shows at its source end is a ball when the run of
\* parentheses opens with "()" (index.ts:117-118, Edge.tsx: leftSymbol 'full')
PresentsBall(t) == Len(t) >= 4 /\ t[2] = "(" /\ t[3] = ")"

\* the one symbol drawn on an internal connector is a ball when its type holds "()"
\* and a socket otherwise (renderStack.ts: hasBall)
DrawsBall(t) == Includes(t, <<"(", ")">>)

InternalOf(d, c) ==
  d.connectors[CHOOSE i \in ConnectorsWithId(d, InterfaceId(c.id)) : TRUE]

ExternalOf(d, c) ==
  d.connectors[CHOOSE i \in ConnectorsWithId(d, c.id) : TRUE]

\* C2: for a boundary-crossing connector written in interface notation, the
\* internal connector carries the opposite symbol to the external one: a ball
\* outside gives a socket inside, a socket outside gives a ball inside.
C2_InvertedPolarity ==
  (Built /\ SingleConnector) =>
    LET c == TheConnector
    IN (Crossing(ast, c) /\ IsInterfaceNotation(c.edgeType))
       => /\ ConnectorsWithId(diagram, InterfaceId(c.id)) # {}
          /\ ConnectorsWithId(diagram, c.id) # {}
          /\ DrawsBall(InternalOf(diagram, c).type)
               # PresentsBall(ExternalOf(diagram, c).type)

\* the shape of the fourth example of the specification: O is a root with a child,
\* and the edge runs from a node outside O to O.p1, p1 being declared nowhere
Example4Shape ==
  /\ SingleConnector
  /\ LET c == TheConnector
     IN /\ IsRoot(ast, c.targetNodeId)
        /\ ast.children[c.targetNodeId] # << >>
        /\ ~IsNested(ast, c.sourceNodeId)
        /\ c.targetPortId = "p1"
        /\ c.sourcePortId = Undefined
        /\ IsInterfaceNotation(c.edgeType)
        /\ \A id \in Declared(ast) : \A i \in 1..Len(ast.ports[id]) :
             ast.ports[id][i].id # "p1"

\* C3 as stated: for that shape the builder creates port p1 on O, an internal
\* connector O.p1 -> I with inverted polarity and an external connector
\* Ext -> O.p1 that keeps the notation.
C3_Example4Synthesis ==
  (Built /\ Example4Shape) =>
    LET c == TheConnector
        O == c.targetNodeId
    IN /\ \E i \in 1..Len(diagram.ports) :
            diagram.ports[i].id = "p1" /\ diagram.ports[i].nodeId = O
       /\ \E i \in 1..Len(diagram.connectors) :
            LET k == diagram.connectors[i]
            IN /\ k.source = O /\ k.sourcePort = "p1"
               /\ k.target = ast.children[O][1]
               /\ k.isAutoGenerated
       /\ \E i \in 1..Len(diagram.connectors) :
            LET k == diagram.connectors[i]
            IN /\ k.source = c.sourceNodeId /\ k.target = O
               /\ k.targetPort = "p1" /\ k.type = c.edgeType

\* C3 amended: for that shape both endpoints have no parent, so the edge is a
\* same-level edge: the builder creates no port and no internal connector and
\* emits the one connector Ext -> O with targetPort p1, the notation and the
\* label unchanged, flagged neither cross-level nor auto-generated.
C3_Example4PassThrough ==
  (Built /\ Example4Shape) =>
    LET c == TheConnector
    IN /\ Len(diagram.ports) = DeclaredPortCount(ast)
       /\ \A i \in 1..Len(diagram.ports) : diagram.ports[i].id # "p1"
       /\ Len(diagram.connectors) = 1
       /\ LET k == diagram.connectors[1]
          IN /\ k.id = c.id
             /\ k.source = c.sourceNodeId /\ k.target = c.targetNodeId
             /\ k.targetPort = "p1" /\ k.sourcePort = Undefined
             /\ k.type = c.edgeType /\ k.label = c.label
             /\ ~k.isCrossLevel /\ ~k.isAutoGenerated

C3_Witness ==
  /\ Built /\ Example4Shape
  /\ TheConnector.sourceNodeId = Ext
  /\ Len(diagram.connectors) = 1

\* C4: for a boundary-crossing connector, whichever end is nested, the internal
\* connector runs from the container (sourcePort = boundary port) to the nested
\* endpoint and is auto-generated and cross-level; the external connector runs
\* from the non-nested endpoint to the container (targetPort = boundary port),
\* keeps id, label and notation, and is cross-level but not auto-generated.
C4_SynthesizedPair ==
  (Built /\ SingleConnector) =>
    LET c == TheConnector
    IN Crossing(ast, c) =>
         /\ Cardinality(ConnectorsWithId(diagram, InterfaceId(c.id))) = 1
         /\ Cardinality(ConnectorsWithId(diagram, c.id)) = 1
         /\ LET int == InternalOf(diagram, c)
                ext == ExternalOf(diagram, c)
            IN /\ int.source = Container(ast, c)
               /\ int.target = NestedEnd(ast, c)
               /\ int.isAutoGenerated /\ int.isCrossLevel
               /\ ext.source = OutsideEnd(ast, c)
               /\ ext.target = Container(ast, c)
               /\ ext.id = c.id /\ ext.label = c.label /\ ext.type = c.edgeType
               /\ ext.isCrossLevel /\ ~ext.isAutoGenerated
               /\ int.sourcePort = ext.targetPort
               /\ \E i \in 1..Len(diagram.ports) :
                    /\ diagram.ports[i].nodeId = Container(ast, c)
                    /\ diagram.ports[i].id = int.sourcePort

\* both directions are reached: a nested source with a label, in a container
\* that is itself nested
C4_Witness ==
  /\ Built /\ SingleConnector
  /\ Crossing(ast, TheConnector)
  /\ IsNested(ast, TheConnector.sourceNodeId)
  /\ TheConnector.label = "L"
  /\ Len(diagram.connectors) = 2
  /\ diagram.connectors[2].source = TheConnector.targetNodeId

FlatIndex(d, id) == {i \in 1..Len(d.nodes) : d.nodes[i].id = id}

\* C5: the flat view describes the tree: each AST node appears exactly once, with
\* parentId = its parent in the tree, depth = its number of ancestors and
\* children = the ordered ids of its children, and the flat list is the
\* pre-order walk of the tree.
C5_TreeFlatConsistency ==
  Built =>
    /\ Len(diagram.nodes) = Cardinality(Declared(ast))
    /\ \A id \in Declared(ast) :
         /\ Cardinality(FlatIndex(diagram, id)) = 1
         /\ LET n == diagram.nodes[CHOOSE i \in FlatIndex(diagram, id) : TRUE]
            IN /\ n.parentId = AstParent(ast, id)
               /\ n.depth = AncestorCount(ast, id)
               /\ n.children = ast.children[id]
    /\ \A i, j \in 1..Len(diagram.nodes) :
         i < j => PathBefore(PathOf(ast, diagram.nodes[i].id),
                             PathOf(ast, diagram.nodes[j].id))

\* a tree of depth two whose flat order differs from the order of declaration
C5_Witness ==
  /\ Built
  /\ \E i \in 1..Len(diagram.nodes) : diagram.nodes[i].depth = 2
  /\ \E i \in 1..Len(diagram.nodes) :
       diagram.nodes[i].id = NodeNames[MaxAstNodes] /\ i < Len(diagram.nodes)

----------------------------------------------------------------------------
(* Vocabulary of the layout properties *)

LaidOut == runs >= 1

\* the positions the engine in use has produced
Positions ==
  IF engine = "flat" THEN PositionsOf(diagram.nodes) ELSE TreePositions(ast)

\* the width and height the engine in use computes for a node
BoundsOf(id) ==
  IF engine = "flat"
  THEN getNodeBounds(diagram.nodes[IndexOfId(diagram.nodes, id)], diagram.nodes)
  ELSE calculateNodeBounds(ast, id)

\* the padding constants of the engine in use
Padding ==
  IF engine = "flat"
  THEN [side |-> Px(sidePadding), vertical |-> Px(verticalPadding),
        label |-> Px(labelSpace)]
  ELSE [side |-> Px(SIDE_PADDING), vertical |-> Px(VERTICAL_PADDING),
        label |-> Px(LABEL_SPACE)]

RECURSIVE Descendants(_, _)
\* the transitive descendants of id in the tree
Descendants(a, id) ==
  UNION {{a.children[id][i]} \cup Descendants(a, a.children[id][i]) :
           i \in 1..Len(a.children[id])}

\* the roots the last run placed in pass 2
PlacedRoots == {trace[i].root : i \in 1..Len(trace)}

\* id was positioned by the stacking pass of the last run
Stacked(id) == \E r \in PlacedRoots : id \in Descendants(ast, r)

Abs(v) == IF v < 0 THEN 0 - v ELSE v

\* the boxes of size b1, b2 centred at p1, p2 share interior points
Overlap(p1, b1, p2, b2) ==
  /\ 2 * Abs(p1.x - p2.x) < b1.width + b2.width
  /\ 2 * Abs(p1.y - p2.y) < b1.height + b2.height

----------------------------------------------------------------------------
(* Properties of the layout *)

\* C6: after auto-layout, the rectangles of any two distinct root-level nodes
\* that pass 2 placed (centre at the final x,y, size = the pass-1 bounding box)
\* do not intersect.
C6_RootBoxesDisjoint ==
  LaidOut =>
    \A i, j \in 1..Len(trace) :
      i # j => ~Overlap(Positions[trace[i].root], trace[i].bounds,
                        Positions[trace[j].root], trace[j].bounds)

\* C7: after auto-layout, each child's box (centre at its x,y, its computed
\* width and height) lies inside its container's box (centre at the container's
\* x,y, the container's computed width and height) reduced by the side padding,
\* the vertical padding and the label band.
C7_ChildrenInsideContainer ==
  LaidOut =>
    \A c \in Declared(ast) : \A i \in 1..Len(ast.children[c]) :
      LET k == ast.children[c][i]
          pk == Positions[k]
          bk == BoundsOf(k)
          pc1 == Positions[c]
          bc == BoundsOf(c)
      IN Stacked(k) =>
           /\ 2 * pk.x - bk.width >= 2 * pc1.x - bc.width + 2 * Padding.side
           /\ 2 * pk.x + bk.width <= 2 * pc1.x + bc.width - 2 * Padding.side
           /\ 2 * pk.y - bk.height >=
                2 * pc1.y - bc.height + 2 * (Padding.vertical + Padding.label)
           /\ 2 * pk.y + bk.height <= 2 * pc1.y + bc.height - 2 * Padding.vertical

\* C8: after auto-layout, any two children of the same container that the
\* stacking pass positioned have non-intersecting boxes.
C8_SiblingBoxesDisjoint ==
  LaidOut =>
    \A c \in Declared(ast) : \A i, j \in 1..Len(ast.children[c]) :
      LET k1 == ast.children[c][i]
          k2 == ast.children[c][j]
      IN (i # j /\ Stacked(k1) /\ Stacked(k2)) =>
           ~Overlap(Positions[k1], BoundsOf(k1), Positions[k2], BoundsOf(k2))

\* C9: applying auto-layout to the positions it has just produced, structure
\* and configuration unchanged, yields the same position for every node as the
\* first application.
C9_LayoutIdempotent ==
  runs >= 2 => Positions = first

\* C10: each pass-2 placement moves every transitive descendant of the placed
\* root by the same (dx, dy) as the root, and moves no node outside the root's
\* subtree.
C10_SubtreeTranslated ==
  LaidOut =>
    \A i \in 1..Len(trace) :
      LET s == trace[i]
          dx == s.after[s.root].x - s.before[s.root].x
          dy == s.after[s.root].y - s.before[s.root].y
      IN \A id \in Declared(ast) :
           IF id \in Descendants(ast, s.root)
           THEN /\ s.after[id].x - s.before[id].x = dx
                /\ s.after[id].y - s.before[id].y = dy
           ELSE id # s.root => s.after[id] = s.before[id]

----------------------------------------------------------------------------
(* Part 3a: the lexer of src/src/parser/lexer.ts.                          *)
(* The input is a string; a character is a string of length one.           *)

\* TokenType: the values of the enum
LBRACKET == "LBRACKET"
RBRACKET == "RBRACKET"
LBRACE == "LBRACE"
RBRACE == "RBRACE"
AT == "AT"
COMMA == "COMMA"
COLON == "COLON"
ARROW == "ARROW"
DELEGATE_ARROW == "DELEGATE_ARROW"
KEYWORD_PORT == "PORT"
KEYWORD_ON == "ON"
SIDE == "SIDE"
INTERFACE_CONNECTOR == "INTERFACE"
IDENTIFIER == "IDENTIFIER"
NUMBER == "NUMBER"
\* TokenType.STRING (STRING is a word of the language)
STRING_ == "STRING"
NEWLINE == "NEWLINE"
WHITESPACE == "WHITESPACE"
EOF == "EOF"

\* /[a-zA-Z_]/
Letters ==
  {"a", "b", "c", "d", "e", "f", "g", "h", "i", "j", "k", "l", "m",
   "n", "o", "p", "q", "r", "s", "t", "u", "v", "w", "x", "y", "z",
   "A", "B", "C", "D", "E", "F", "G", "H", "I", "J", "K", "L", "M",
   "N", "O", "P", "Q", "R", "S", "T", "U", "V", "W", "X", "Y", "Z", "_"}

\* /[0-9]/
Digits == {"0", "1", "2", "3", "4", "5", "6", "7", "8", "9"}

isAlpha(char) == char \in Letters

isDigit(char) == char \in Digits

isAlphaNumeric(char) == char \in Letters \cup Digits

isWhitespace(char) == char \in {" ", "\t", "\r"}

\* this.input[i] || '' : the character at the 0-based index i
CharAt(input, i) ==
  IF i >= 0 /\ i < Len(input) THEN SubSeq(input, i + 1, i + 1) ELSE ""

\* Lexer.match: this.input.slice(position).startsWith(str)
matchText(input, position, str) ==
  /\ position + Len(str) <= Len(input)
  /\ SubSeq(input, position + 1, position + Len(str)) = str

\* the lexer's cursor in a fresh Lexer
NewLexer == [position |-> 0, line |-> 1, column |-> 1]

\* n calls of advance(): position++, column++
advance(lx, n) ==
  [lx EXCEPT !.position = @ + n, !.column = @ + n]

createToken(lx, type, value) ==
  [type |-> type, value |-> value, line |-> lx.line, column |-> lx.column]

\* what nextToken hands back, with the cursor it leaves behind
Lexed(token, lx) == [token |-> token, lexer |-> lx]

\* advanceWithToken: the token is stamped before the cursor moves
advanceWithToken(lx, type, value, length) ==
  Lexed(createToken(lx, type, value), advance(lx, length))

RECURSIVE whitespaceEnd(_, _)
\* the index at which a run of blanks starting at i ends
whitespaceEnd(input, i) ==
  IF i < Len(input) /\ isWhitespace(CharAt(input, i))
  THEN whitespaceEnd(input, i + 1)
  ELSE i

\* skipWhitespace
skipWhitespace(input, lx) ==
  advance(lx, whitespaceEnd(input, lx.position) - lx.position)

RECURSIVE parenthesesEnd(_, _)
\* the index at which a run of parentheses starting at i ends
parenthesesEnd(input, i) ==
  IF CharAt(input, i) \in {"(", ")"} THEN parenthesesEnd(input, i + 1) ELSE i

\* substr.match(/^(-(?:\(\)|[()])+-)/): the length of the match at position, 0
\* when there is none.  After a dash the pattern takes parentheses and needs a
\* dash behind them, so it matches only with the whole run of parentheses.
interfaceMatch(input, position) ==
  LET e == parenthesesEnd(input, position + 1)
  IN IF CharAt(input, position) = "-" /\ e > position + 1 /\ CharAt(input, e) = "-"
     THEN e + 1 - position
     ELSE 0

RECURSIVE identifierEnd(_, _)
\* the while loop of the identifier rule: where the identifier starting at or
\* before i ends
identifierEnd(input, i) ==
  IF i >= Len(input) THEN i
  ELSE LET c == CharAt(input, i)
       IN IF isAlphaNumeric(c) \/ c = "." THEN identifierEnd(input, i + 1)
          ELSE IF c = "-"
          THEN IF CharAt(input, i + 1) \in {">", "(", ")"}
               THEN i
               ELSE identifierEnd(input, i + 1)
          ELSE i

RECURSIVE digitsEnd(_, _)
\* where the digits starting at i end
digitsEnd(input, i) ==
  IF i < Len(input) /\ isDigit(CharAt(input, i)) THEN digitsEnd(input, i + 1) ELSE i

\* the reclassification of an identifier's text
keywordType(value) ==
  IF value = "port" THEN KEYWORD_PORT
  ELSE IF value = "on" THEN KEYWORD_ON
  ELSE IF value \in {"left", "right", "top", "bottom"} THEN SIDE
  ELSE IDENTIFIER

\* the single character tokens
singleCharacter(char) ==
  CASE char = "[" -> LBRACKET
    [] char = "]" -> RBRACKET
    [] char = "{" -> LBRACE
    [] char = "}" -> RBRACE
    [] char = "@" -> AT
    [] char = "," -> COMMA
    [] char = ":" -> COLON
    [] OTHER -> Undefined

\* the fallback with a slip: the cursor stays where it is
fallbackToken_NoAdvance(lx, char) ==
  Lexed(createToken(lx, STRING_, char), lx)

\* return this.advanceWithToken(TokenType.STRING, char)
fallbackToken(lx, char) ==
  advanceWithToken(lx, STRING_, char, 1)

\* nextToken from the point where blanks are dealt with
scanToken(input, lx) ==
  LET char == CharAt(input, lx.position)
      matched == interfaceMatch(input, lx.position)
      idEnd == identifierEnd(input, lx.position)
      numStart == IF char = "-" THEN lx.position + 1 ELSE lx.position
      numEnd == digitsEnd(input, numStart)
  IN IF lx.position >= Len(input) THEN Lexed(createToken(lx, EOF, ""), lx)
     ELSE IF char = "\n"
     THEN LET after == [position |-> lx.position + 1, line |-> lx.line + 1,
                        column |-> 1]
          IN Lexed(createToken(after, NEWLINE, "\n"), after)
     ELSE IF singleCharacter(char) # Undefined
     THEN advanceWithToken(lx, singleCharacter(char), char, 1)
     ELSE IF char = "-" /\ matchText(input, lx.position, "->delegate->")
     THEN advanceWithToken(lx, DELEGATE_ARROW, "->delegate->", 12)
     ELSE IF char = "-" /\ matchText(input, lx.position, "-->")
     THEN advanceWithToken(lx, ARROW, "-->", 3)
     ELSE IF char = "-" /\ matchText(input, lx.position, "->")
     THEN advanceWithToken(lx, ARROW, "->", 2)
     ELSE IF char = "-" /\ matched > 0
     THEN advanceWithToken(lx, INTERFACE_CONNECTOR,
                           SubSeq(input, lx.position + 1, lx.position + matched),
                           matched)
     ELSE IF isAlpha(char) \/ char = "."
     THEN LET value == SubSeq(input, lx.position + 1, idEnd)
              after == advance(lx, idEnd - lx.position)
          IN Lexed(createToken(after, keywordType(value), value), after)
     ELSE IF isDigit(char) \/ (char = "-" /\ isDigit(CharAt(input, lx.position + 1)))
     THEN LET value == SubSeq(input, lx.position + 1, numEnd)
              after == advance(lx, numEnd - lx.position)
          IN Lexed(createToken(after, NUMBER, value), after)
     ELSE fallbackToken(lx, char)

\* a lexer that drops the blanks whatever the option says
nextToken_SkipsTrivia(input, lx, includeWhitespace) ==
  scanToken(input, skipWhitespace(input, lx))

nextToken(input, lx, includeWhitespace) ==
  IF ~includeWhitespace THEN scanToken(input, skipWhitespace(input, lx))
  ELSE IF isWhitespace(CharAt(input, lx.position))
  THEN LET e == whitespaceEnd(input, lx.position)
           after == advance(lx, e - lx.position)
       IN Lexed(createToken(after, WHITESPACE, SubSeq(input, lx.position + 1, e)),
                after)
  ELSE scanToken(input, lx)

\* one turn of the loop of tokenize: the token is pushed, and the loop is left
\* behind once EOF has been pushed
tokenizeStep(input, st, includeWhitespace) ==
  IF st.returned THEN st
  ELSE LET r == nextToken(input, st.lexer, includeWhitespace)
       IN [lexer |-> r.lexer,
           tokens |-> Append(st.tokens, r.token),
           returned |-> r.token.type = EOF]

RECURSIVE tokenizeLoop(_, _, _, _)
\* n turns of the loop: the first half of them, and the rest unless the loop
\* has been left by then
tokenizeLoop(input, st, includeWhitespace, n) ==
  IF n = 0 THEN st
  ELSE IF n = 1 THEN tokenizeStep(input, st, includeWhitespace)
  ELSE LET half == tokenizeLoop(input, st, includeWhitespace, n \div 2)
       IN IF half.returned THEN half
          ELSE tokenizeLoop(input, half, includeWhitespace, n - (n \div 2))

\* tokenize(options): a token that is not EOF takes at least one character, so
\* a loop that ends has ended after Len(input) + 1 turns; returned tells
\* whether it has
tokenizeRun(input, includeWhitespace) ==
  tokenizeLoop(input, [lexer |-> NewLexer, tokens |-> << >>, returned |-> FALSE],
               includeWhitespace, Len(input) + 1)

tokenize(input, includeWhitespace) == tokenizeRun(input, includeWhitespace).tokens

----------------------------------------------------------------------------
(* The lexer as a state machine: a text is typed and tokenized *)

\* length of the texts made of single characters
MaxInputLen == 4
\* number of lexemes in the texts made of lexemes
MaxLexemes == 3

RECURSIVE StringsOver(_, _)
\* the strings of n pieces taken from S
StringsOver(S, n) ==
  IF n = 0 THEN {""}
  ELSE {s \o c : s \in StringsOver(S, n - 1), c \in S}

\* one character of each kind the rules of nextToken tell apart, "#" standing
\* for the characters no rule names
LexAlphabet == {"a", "1", ".", "-", ">", "(", ")", " ", "\n", "[", "#"}

\* the longer lexemes, the remaining single character tokens and blanks
Lexemes ==
  {"->delegate->", "-->", "-())-", "port", "on", "left", "A.p1", "-12",
   "uml2.5-component", "\t", "\r", "{", "}", "]", "@", ",", ":"}

LexerInputs ==
  UNION {StringsOver(LexAlphabet, n) : n \in 0..MaxInputLen}
  \cup UNION {StringsOver(Lexemes, n) : n \in 1..MaxLexemes}

\* the parts of the state a specification of the front end does not use
NoBackEnd ==
  /\ ast = Undefined
  /\ diagram = EmptyDiagram
  /\ engine = "none"
  /\ trace = << >>
  /\ runs = 0
  /\ first = << >>

backEnd == <<ast, diagram, engine, trace, runs, first>>

InitLexer ==
  /\ pc = "typed"
  /\ code \in LexerInputs
  /\ tokens = << >>
  /\ result = Undefined
  /\ parser = Undefined
  /\ NoBackEnd

\* new Lexer(code).tokenize({ includeWhitespace })
Tokenize ==
  /\ pc = "typed"
  /\ \E includeWhitespace \in BOOLEAN :
       \E run \in {tokenizeRun(code, includeWhitespace)} :
         /\ tokens' = run.tokens
         /\ result' = [includeWhitespace |-> includeWhitespace,
                       returned |-> run.returned]
  /\ pc' = "tokenized"
  /\ UNCHANGED <<code, parser>>
  /\ UNCHANGED backEnd

NextLexer == Tokenize

SpecLexer == InitLexer /\ [][NextLexer]_vars

\* the indices of the characters of a text that are the character c
Occurrences(text, c) == {i \in 1..Len(text) : SubSeq(text, i, i) = c}

\* C14: for every input, with or without trivia, tokenize returns with a token
\* sequence that ends in EOF and holds no other EOF token; every character that
\* matches no lexical rule has become a STRING token of that one character.
C14_LexerTotal ==
  pc = "tokenized" =>
    /\ result.returned
    /\ Len(tokens) >= 1
    /\ tokens[Len(tokens)].type = EOF
    /\ \A i \in 1..(Len(tokens) - 1) : tokens[i].type # EOF
    /\ \A i \in 1..Len(tokens) : tokens[i].type = STRING_ => Len(tokens[i].value) = 1
    /\ Cardinality(Occurrences(code, "#"))
         = Cardinality({i \in 1..Len(tokens) :
                          tokens[i].type = STRING_ /\ tokens[i].value = "#"})

C14_Witness ==
  /\ pc = "tokenized"
  /\ code = "a#-("
  /\ ~result.includeWhitespace
  /\ Len(tokens) = 5
  /\ tokens[2].type = STRING_ /\ tokens[2].value = "#"

----------------------------------------------------------------------------
(* Properties of the lexer, under SpecLexer *)

\* the text of the tokens from the first to the k-th
RECURSIVE ValuesUpTo(_, _)
ValuesUpTo(ts, k) == IF k = 0 THEN "" ELSE ValuesUpTo(ts, k - 1) \o ts[k].value

\* the number of characters of the text in front of the k-th token: blanks
\* between two tokens belong to neither, unless the k-th token is made of them
RECURSIVE StartOf(_, _, _)
StartOf(text, ts, k) ==
  LET from(prevEnd) ==
        IF ts[k].type = WHITESPACE THEN prevEnd
        ELSE SetMin({j \in prevEnd..Len(text) :
                       j = Len(text) \/ ~isWhitespace(SubSeq(text, j + 1, j + 1))})
  IN from(IF k = 1 THEN 0 ELSE StartOf(text, ts, k - 1) + Len(ts[k - 1].value))

\* the line and the column, both counted from 1, of the character behind the
\* first before characters of the text
LineOf(text, before) == 1 + Cardinality({j \in 1..before : SubSeq(text, j, j) = "\n"})

ColumnOf(text, before) ==
  before + 1 - SetMax({0} \cup {j \in 1..before : SubSeq(text, j, j) = "\n"})

\* the tokens that are stamped when all their characters have been consumed
StampedBehind == {IDENTIFIER, KEYWORD_PORT, KEYWORD_ON, SIDE, NUMBER, WHITESPACE}

\* C27: every token but EOF carries the line and the column, counted from 1,
\* of its first character in the text.
C27_TokenStart ==
  pc = "tokenized" =>
    \A k \in 1..(Len(tokens) - 1) :
      /\ tokens[k].line = LineOf(code, StartOf(code, tokens, k))
      /\ tokens[k].column = ColumnOf(code, StartOf(code, tokens, k))

\* what the lexer stamps: the place of the first character on delimiters,
\* connectors and unknown characters; the place behind the last character on
\* identifiers, keywords, sides, numbers and blanks; and the start of the
\* next line on a newline
StampAsBuilt ==
  pc = "tokenized" =>
    \A k \in 1..(Len(tokens) - 1) :
      LET start == StartOf(code, tokens, k)
          end == StartOf(code, tokens, k) + Len(tokens[k].value)
      IN IF tokens[k].type = NEWLINE
         THEN tokens[k].line = LineOf(code, start) + 1 /\ tokens[k].column = 1
         ELSE IF tokens[k].type \in StampedBehind
         THEN /\ tokens[k].line = LineOf(code, start)
              /\ tokens[k].column = ColumnOf(code, start) + Len(tokens[k].value)
         ELSE /\ tokens[k].line = LineOf(code, start)
              /\ tokens[k].column = ColumnOf(code, start)

\* C30: with trivia kept, the values of the tokens in their order, put
\* together, are the text: every character belongs to exactly one token.
C30_Lossless ==
  (pc = "tokenized" /\ result.includeWhitespace) =>
    ValuesUpTo(tokens, Len(tokens)) = code

\* a text of a run of blanks and an interface connector has been tokenized
\* with trivia
C30_Witness ==
  /\ pc = "tokenized" /\ result.includeWhitespace
  /\ \E k \in 1..Len(tokens) : tokens[k].type = WHITESPACE /\ Len(tokens[k].value) >= 2
  /\ \E k \in 1..Len(tokens) : tokens[k].type = INTERFACE_CONNECTOR
  /\ ValuesUpTo(tokens, Len(tokens)) = code
  /\ Len(tokens) >= 3
----------------------------------------------------------------------------
(* Part 3b: the parser parseToAST of src/src/parser/astParser.ts.          *)
(* The parser's local variables are one record: the cursor i               *)
(* (currentTokenIndex), the AST under construction, nodeStack (the ids of  *)
(* the open nodes), edgeIdCounter, whether the document has a wrapper, and *)
(* how the call stands: running, returned, or thrown with the error.       *)
(* warnings holds what went to console.warn and log one entry for each     *)
(* statement parseStatement has dispatched.  The recursion of parseNode    *)
(* and parseBlockContent is unfolded along nodeStack: a block is open      *)
(* exactly while its node is on the stack.                                 *)

MAX_DEPTH == 50

\* TokenType.KEYWORD_WITH: the enum of lexer.ts has no such member
KEYWORD_WITH == Undefined

validTypes == {"uml2.5-component", "uml2.5-class", "uml2.5-sequence", "uml2.5-activity"}

\* the characters of a string
Chars(str) == [k \in 1..Len(str) |-> SubSeq(str, k, k)]

\* String.prototype.trim
trim(str) ==
  LET solid == {k \in 1..Len(str) : SubSeq(str, k, k) \notin {" ", "\t", "\r", "\n"}}
  IN IF solid = {} THEN "" ELSE SubSeq(str, SetMin(solid), SetMax(solid))

\* the value of one decimal digit
DigitValue(char) == CHOOSE d \in 0..9 : SubSeq("0123456789", d + 1, d + 1) = char

RECURSIVE digitsValue(_, _)
digitsValue(str, acc) ==
  IF str = "" THEN acc
  ELSE digitsValue(Tail(str), 10 * acc + DigitValue(Head(str)))

\* parseInt(value, 10) of the text of a NUMBER token
parseInt(value) ==
  IF Head(value) = "-" THEN 0 - digitsValue(Tail(value), 0)
  ELSE digitsValue(value, 0)

\* value.split('.'): the first two parts; the second is Undefined when the
\* value holds no dot
splitDot(value) ==
  LET dots == {k \in 1..Len(value) : SubSeq(value, k, k) = "."}
      d1 == SetMin(dots)
      later == {k \in dots : k > d1}
      d2 == IF later = {} THEN Len(value) + 1 ELSE SetMin(later)
  IN IF dots = {} THEN <<value, Undefined>>
     ELSE <<SubSeq(value, 1, d1 - 1), SubSeq(value, d1 + 1, d2 - 1)>>

EmptyAst ==
  [type |-> "uml2.5-component", rootNodes |-> << >>, children |-> << >>,
   ports |-> << >>, pos |-> << >>, size |-> << >>, label |-> << >>,
   connectors |-> << >>]

NewParser ==
  [i |-> 0, ast |-> EmptyAst, nodeStack |-> << >>, edgeIdCounter |-> 0,
   wrapped |-> FALSE, status |-> "running", error |-> Undefined,
   warnings |-> << >>, log |-> << >>]

\* peek(offset)
peek(ts, ps, offset) == ts[ps.i + offset + 1]

\* match(type)
match(ts, ps, type) == peek(ts, ps, 0).type = type

\* new ParserError(message, line, column), thrown at this point
throw(ps, message, token) ==
  [ps EXCEPT !.status = "thrown",
             !.error = [name |-> "ParserError", message |-> message,
                        line |-> token.line, column |-> token.column]]

\* consume(type, errorMsg); a call that has thrown executes nothing further
consume(ts, ps, type, errorMsg) ==
  IF ps.status # "running" THEN ps
  ELSE IF match(ts, ps, type) THEN [ps EXCEPT !.i = @ + 1]
  ELSE throw(ps,
             IF errorMsg # Undefined THEN errorMsg
             ELSE "Expected " \o type \o " but got " \o peek(ts, ps, 0).type,
             peek(ts, ps, 0))

RECURSIVE joinValues(_, _, _, _)
\* the loops "if (l.length > 0) l += ' '; l += advance().value" over the
\* tokens i .. j-1 (0-based)
joinValues(ts, i, j, acc) ==
  IF i >= j THEN acc
  ELSE joinValues(ts, i + 1, j,
                  (IF Len(acc) > 0 THEN acc \o " " ELSE acc) \o ts[i + 1].value)

\* the first index from i on whose token has one of the types
firstOf(ts, i, types) ==
  CHOOSE j \in i..(Len(ts) - 1) :
    /\ ts[j + 1].type \in types
    /\ \A k \in i..(j - 1) : ts[k + 1].type \notin types

\* one entry of log: the parse function parseStatement has called, the cursor
\* at the start of the statement, the cursor handed to the function and the
\* nodes open at that time
Dispatched(kind, at, from, open) ==
  [kind |-> kind, at |-> at, from |-> from, open |-> open]

\* the tokens "[", IDENTIFIER, "]" consumed one after the other
bracketed(ts, ps, errorMsg) ==
  consume(ts, consume(ts, consume(ts, ps, LBRACKET, Undefined),
                      IDENTIFIER, errorMsg),
          RBRACKET, Undefined)

\* the optional "@ x,y" of a node
nodeCoordinates(ts, ps) ==
  IF ~match(ts, ps, AT) THEN ps
  ELSE consume(ts, consume(ts, consume(ts, consume(ts, ps, AT, Undefined),
                                       NUMBER, Undefined),
                           COMMA, Undefined),
               NUMBER, Undefined)

\* the node is made and pushed onto the children of the innermost open node,
\* or onto rootNodes
attachNode(ps, id, label, position) ==
  LET declared == [ps.ast EXCEPT
                     !.children = MapSet(@, id, << >>),
                     !.ports = MapSet(@, id, << >>),
                     !.pos = MapSet(@, id, position),
                     !.size = MapSet(@, id, NoSize),
                     !.label = MapSet(@, id, label)]
  IN IF ps.nodeStack # << >>
     THEN [ps EXCEPT !.ast =
             [declared EXCEPT
                !.children[ps.nodeStack[Len(ps.nodeStack)]] = Append(@, id)]]
     ELSE [ps EXCEPT !.ast = [declared EXCEPT !.rootNodes = Append(@, id)]]

\* "if (match(LBRACE))" of parseNode, up to the call of parseBlockContent
openBlock(ts, ps, id) ==
  IF ~match(ts, ps, LBRACE) THEN ps
  ELSE IF Len(ps.nodeStack) + 1 > MAX_DEPTH
  THEN [ps EXCEPT !.i = @ + 1, !.nodeStack = Append(@, id),
                  !.warnings = Append(@, "Max nesting depth exceeded")]
  ELSE [ps EXCEPT !.i = @ + 1, !.nodeStack = Append(@, id)]

\* parseNode, up to and including the "{" that opens the node's block; from is
\* the cursor the caller has left.  The id is the token behind the "[", the
\* label runs up to labelEnd, and the numbers stand behind the "@" there.
parseNode(ts, ps, from) ==
  LET afterLabel(p3, labelEnd) ==
        LET afterCoordinates(p8) ==
              IF p8.status # "running" THEN p8
              ELSE openBlock(ts,
                     attachNode(p8, ts[from + 2].value,
                                trim(joinValues(ts, p3.i, labelEnd, "")),
                                IF ts[labelEnd + 1].type = AT
                                THEN [has |-> TRUE,
                                      x |-> Px(parseInt(ts[labelEnd + 2].value)),
                                      y |-> Px(parseInt(ts[labelEnd + 4].value))]
                                ELSE NoPos),
                     ts[from + 2].value)
        IN afterCoordinates(nodeCoordinates(ts, [p3 EXCEPT !.i = labelEnd]))
      afterId(p3) ==
        IF p3.status # "running" THEN p3
        ELSE afterLabel(p3, firstOf(ts, p3.i, {AT, LBRACE, NEWLINE, EOF, RBRACE}))
  IN afterId(bracketed(ts,
                       [ps EXCEPT !.i = from,
                                  !.log = Append(@, Dispatched("node", ps.i, from,
                                                               ps.nodeStack))],
                       "Expected node ID"))

\* the label behind a colon, up to the end of the line: the cursor behind it
\* and the text; Undefined without a colon
colonLabel(ts, ps) ==
  IF match(ts, ps, COLON)
  THEN LET labelled(lineEnd) ==
             [i |-> lineEnd, label |-> trim(joinValues(ts, ps.i + 1, lineEnd, ""))]
       IN labelled(firstOf(ts, ps.i + 1, {NEWLINE, EOF}))
  ELSE [i |-> ps.i, label |-> Undefined]

connectorTypes == {ARROW, DELEGATE_ARROW, INTERFACE_CONNECTOR}

\* the connector parseEdge pushes: source, connector and target are the three
\* tokens from start on
edgeOf(ts, start, connectorName, interfaceName, explicitLabel, edgeIdCounter) ==
  LET ends(source, connector, target) ==
        [id |-> IF connectorName # Undefined THEN connectorName
                ELSE "conn-" \o ToString(edgeIdCounter),
         name |-> connectorName,
         sourceNodeId |-> source[1], targetNodeId |-> target[1],
         sourcePortId |-> source[2], targetPortId |-> target[2],
         label |-> IF (explicitLabel = Undefined \/ explicitLabel = "")
                      /\ interfaceName # Undefined
                   THEN interfaceName
                   ELSE explicitLabel,
         isDelegate |-> connector.type = DELEGATE_ARROW,
         stereotype |-> IF connector.type = DELEGATE_ARROW THEN "delegate"
                        ELSE Undefined,
         edgeType |-> IF connector.type = DELEGATE_ARROW THEN NoType
                      ELSE Chars(connector.value)]
  IN ends(splitDot(ts[start + 1].value), ts[start + 2], splitDot(ts[start + 3].value))

\* parseEdge; from is the cursor the caller has left
parseEdge(ts, ps, from) ==
  LET afterName(p3, connectorName) ==
        LET afterTarget(p7, start, interfaceName) ==
              IF p7.status # "running" THEN p7
              ELSE LET pushed(explicit) ==
                         [p7 EXCEPT
                            !.i = explicit.i,
                            !.edgeIdCounter = IF connectorName # Undefined THEN @
                                              ELSE @ + 1,
                            !.ast.connectors =
                               Append(@, edgeOf(ts, start, connectorName,
                                                interfaceName, explicit.label,
                                                p7.edgeIdCounter))]
                   IN pushed(colonLabel(ts, p7))
            afterSource(p5, start, interfaceName) ==
              IF p5.status # "running" THEN p5
              ELSE IF peek(ts, p5, 0).type \notin connectorTypes
              THEN throw(p5, "Unexpected token for edge connection: "
                               \o peek(ts, p5, 0).type,
                         peek(ts, p5, 0))
              ELSE afterTarget(consume(ts, [p5 EXCEPT !.i = @ + 1], IDENTIFIER,
                                       "Expected target node"),
                               start, interfaceName)
        IN IF p3.status # "running" THEN p3
           ELSE IF peek(ts, p3, 0).type = IDENTIFIER /\ peek(ts, p3, 1).type = IDENTIFIER
           THEN afterSource(consume(ts, [p3 EXCEPT !.i = @ + 1], IDENTIFIER,
                                    "Expected source node"),
                            p3.i + 1, peek(ts, p3, 0).value)
           ELSE afterSource(consume(ts, p3, IDENTIFIER, "Expected source node"),
                            p3.i, Undefined)
      logged(p0) ==
        IF match(ts, p0, LBRACKET)
        THEN afterName(bracketed(ts, p0, "Expected connector name"),
                       peek(ts, p0, 1).value)
        ELSE afterName(p0, Undefined)
  IN logged([ps EXCEPT !.i = from,
                       !.log = Append(@, Dispatched("edge", ps.i, from,
                                                    ps.nodeStack))])

\* findAndAddPort(rootNodes) with a slip: only the open nodes are searched
findAndAddPort_OpenScope(ps, nodeId, port) ==
  IF \E k \in 1..Len(ps.nodeStack) : ps.nodeStack[k] = nodeId
  THEN [ps EXCEPT !.ast.ports[nodeId] = Append(@, port)]
  ELSE [ps EXCEPT !.warnings =
          Append(@, "Node " \o nodeId \o " not found for port " \o port.id)]

\* findAndAddPort(rootNodes) and the warning when it finds nothing: every
\* node that has been declared is in the tree under rootNodes
findAndAddPort(ps, nodeId, port) ==
  IF nodeId \in DOMAIN ps.ast.children
  THEN [ps EXCEPT !.ast.ports[nodeId] = Append(@, port)]
  ELSE [ps EXCEPT !.warnings =
          Append(@, "Node " \o nodeId \o " not found for port " \o port.id)]

\* parsePort: the statement starts at the cursor of ps, its id is the third
\* token and the name in the second pair of brackets the seventh
parsePort(ts, ps) ==
  LET afterSide(p9, nodeId, connectorRef) ==
        IF p9.status # "running" THEN p9
        ELSE LET added(explicit) ==
                   findAndAddPort([p9 EXCEPT !.i = explicit.i], nodeId,
                                  [id |-> ts[ps.i + 3].value,
                                   label |-> explicit.label,
                                   side |-> ts[p9.i].value,
                                   connectorRef |-> connectorRef])
             IN added(colonLabel(ts, p9))
      afterWith(p8) ==
        IF p8.status # "running" THEN p8
        ELSE IF p8.nodeStack = << >>
        THEN throw(p8, "Port with connector reference must be inside a node block",
                   peek(ts, p8, 0))
        ELSE afterSide(consume(ts, p8, SIDE, Undefined),
                       p8.nodeStack[Len(p8.nodeStack)], ts[ps.i + 7].value)
      afterOn(p8) ==
        IF p8.status # "running" THEN p8
        ELSE afterSide(consume(ts, p8, SIDE, Undefined), ts[ps.i + 7].value,
                       Undefined)
      afterId(p4) ==
        IF p4.status # "running" THEN p4
        ELSE IF match(ts, p4, KEYWORD_WITH)
        THEN afterWith(bracketed(ts, consume(ts, p4, KEYWORD_WITH, Undefined),
                                 Undefined))
        ELSE IF match(ts, p4, KEYWORD_ON)
        THEN afterOn(bracketed(ts, consume(ts, p4, KEYWORD_ON, Undefined),
                               Undefined))
        ELSE throw(p4, "Expected 'with' or 'on' after port ID", peek(ts, p4, 0))
  IN afterId(bracketed(ts,
                       consume(ts,
                               [ps EXCEPT !.log =
                                  Append(@, Dispatched("port", ps.i, ps.i,
                                                       ps.nodeStack))],
                               KEYWORD_PORT, Undefined),
                       Undefined))

\* the last branch of parseStatement: skip to the end of the line
skipLine(ts, ps) ==
  [ps EXCEPT !.i = firstOf(ts, ps.i + 1, {NEWLINE, EOF}),
             !.log = Append(@, Dispatched("skip", ps.i, ps.i, ps.nodeStack))]

\* what parseStatement finds behind "[id]", at the cursor i: an identifier and
\* a connector, or two identifiers and a connector
namedEdgeAhead(ts, i) ==
  /\ ts[i + 1].type = IDENTIFIER
  /\ IF ts[i + 2].type = IDENTIFIER
     THEN ts[i + 3].type \in connectorTypes
     ELSE ts[i + 2].type \in connectorTypes

\* parseStatement with a slip: the cursor is not put back before a node is parsed
parseStatement_NoRewind(ts, ps) ==
  LET lookedAhead(l3) ==
        IF l3.status # "running" THEN l3
        ELSE IF namedEdgeAhead(ts, l3.i) THEN parseEdge(ts, ps, ps.i)
        ELSE parseNode(ts, ps, l3.i)
  IN IF match(ts, ps, KEYWORD_PORT) THEN parsePort(ts, ps)
     ELSE IF match(ts, ps, LBRACKET)
     THEN lookedAhead(bracketed(ts, ps, Undefined))
     ELSE IF match(ts, ps, IDENTIFIER) THEN parseEdge(ts, ps, ps.i)
     ELSE skipLine(ts, ps)

\* parseStatement: behind a "[" the cursor runs ahead over "[id]" and what
\* follows, and is put back to checkIndex before the statement is parsed
parseStatement(ts, ps) ==
  LET lookedAhead(l3, checkIndex) ==
        IF l3.status # "running" THEN l3
        ELSE IF namedEdgeAhead(ts, l3.i) THEN parseEdge(ts, ps, checkIndex)
        ELSE parseNode(ts, ps, checkIndex)
  IN IF match(ts, ps, KEYWORD_PORT) THEN parsePort(ts, ps)
     ELSE IF match(ts, ps, LBRACKET)
     THEN lookedAhead(bracketed(ts, ps, Undefined), ps.i)
     ELSE IF match(ts, ps, IDENTIFIER) THEN parseEdge(ts, ps, ps.i)
     ELSE skipLine(ts, ps)

\* the start of parseToAST: the wrapper "[diagram-type] {", if there is one
parseWrapper(ts) ==
  LET opened(p4) ==
        IF p4.status # "running" THEN p4
        ELSE [p4 EXCEPT !.wrapped = TRUE, !.ast.type = ts[2].value]
  IN IF match(ts, NewParser, LBRACKET)
        /\ peek(ts, NewParser, 1).type = IDENTIFIER
        /\ peek(ts, NewParser, 1).value \in validTypes
     THEN opened(consume(ts, bracketed(ts, NewParser, Undefined), LBRACE, Undefined))
     ELSE NewParser

\* parseStep with a slip: a newline between two statements is not consumed
parseStep_KeepsNewline(ts, ps) ==
  IF ps.status # "running" THEN ps
  ELSE IF match(ts, ps, EOF) \/ match(ts, ps, RBRACE)
  THEN IF ps.nodeStack # << >>
       THEN LET popped(closed) ==
                  IF closed.status # "running" THEN closed
                  ELSE [closed EXCEPT !.nodeStack = SubSeq(@, 1, Len(@) - 1)]
            IN popped(consume(ts, ps, RBRACE, Undefined))
       ELSE [ps EXCEPT !.status = "returned",
                       !.i = IF ps.wrapped /\ match(ts, ps, RBRACE) THEN @ + 1 ELSE @]
  ELSE IF match(ts, ps, NEWLINE) THEN ps
  ELSE parseStatement(ts, ps)

\* one turn of the loop of the innermost open parseBlockContent.  When the loop
\* ends inside a node, parseNode consumes the "}" and pops the node; when it
\* ends at the outermost level, parseToAST returns (behind a wrapper, after
\* consuming a "}" that is there).
parseStep(ts, ps) ==
  IF ps.status # "running" THEN ps
  ELSE IF match(ts, ps, EOF) \/ match(ts, ps, RBRACE)
  THEN IF ps.nodeStack # << >>
       THEN LET popped(closed) ==
                  IF closed.status # "running" THEN closed
                  ELSE [closed EXCEPT !.nodeStack = SubSeq(@, 1, Len(@) - 1)]
            IN popped(consume(ts, ps, RBRACE, Undefined))
       ELSE [ps EXCEPT !.status = "returned",
                       !.i = IF ps.wrapped /\ match(ts, ps, RBRACE) THEN @ + 1 ELSE @]
  ELSE IF match(ts, ps, NEWLINE) THEN [ps EXCEPT !.i = @ + 1]
  ELSE parseStatement(ts, ps)

RECURSIVE parseLoop(_, _, _)
\* n turns: the first half of them, and the rest unless the call has ended
parseLoop(ts, ps, n) ==
  IF n = 0 THEN ps
  ELSE IF n = 1 THEN parseStep(ts, ps)
  ELSE LET half == parseLoop(ts, ps, n \div 2)
       IN IF half.status # "running" THEN half
          ELSE parseLoop(ts, half, n - (n \div 2))

\* the parser at the end of parseToAST(text): every turn but the last takes at
\* least one token, so a call that ends has ended after Len(ts) + 1 turns
parseRun(text) ==
  LET ts == tokenize(text, FALSE)
  IN parseLoop(ts, parseWrapper(ts), Len(ts) + 1)
----------------------------------------------------------------------------
(* Part 3c: parseDiagram of src/src/parser/index.ts over bounded families  *)
(* of documents.  The arena keeps one entry for a node id, so the          *)
(* documents of the model declare a node id at most once: a piece that can *)
(* declare a node occurs at most once in a document.                       *)

\* parseToAST(text) as the parser at its end: it has returned its AST or
\* thrown its error
parseToAST(text) == parseRun(text)

\* the try of parseDiagram with a slip: after an error the diagram is built
\* from what the parser had made so far
ParseResult_KeepPartial(run, ts) ==
  IF run.status = "returned"
  THEN [diagram |-> convertASTToDiagram(run.ast), ast |-> run.ast,
        tokens |-> ts, error |-> Undefined]
  ELSE [diagram |-> convertASTToDiagram(run.ast), ast |-> Undefined,
        tokens |-> Undefined, error |-> run.error]

\* the try and the catch of parseDiagram, for the parser that parseToAST has
\* left: the ParseResult
ParseResult(run, ts) ==
  IF run.status = "returned"
  THEN [diagram |-> convertASTToDiagram(run.ast), ast |-> run.ast,
        tokens |-> ts, error |-> Undefined]
  ELSE [diagram |-> EmptyDiagram, ast |-> Undefined,
        tokens |-> Undefined, error |-> run.error]

parseDiagram(text) == ParseResult(parseToAST(text), tokenize(text, FALSE))

RECURSIVE JoinWith(_, _)
\* the pieces, put together with sep between them
JoinWith(pieces, sep) ==
  IF pieces = << >> THEN ""
  ELSE IF Len(pieces) = 1 THEN pieces[1]
  ELSE pieces[1] \o sep \o JoinWith(Tail(pieces), sep)

\* all sequences over S of length at most n
SeqsUpTo(S, n) == UNION {SeqsOver(S, k) : k \in 0..n}

\* at most one of the pieces is in S
AtMostOne(pieces, S) == Cardinality({k \in 1..Len(pieces) : pieces[k] \in S}) <= 1

\* the sequences of at most n pieces in which no declaration occurs twice
Compositions(pieces, n, declarations) ==
  {w \in SeqsUpTo(pieces, n) : \A d \in declarations : AtMostOne(w, d)}

MaxWords == 3
MaxLookahead == 4
MaxStatements == 4
MaxWrapped == 2

\* documents of any words: most of them are malformed
Words ==
  {"[A]", "[p]", "x", "B.p", "->", "->delegate->", "-())-", "{", "}", "\n",
   ":", "@", "7", ",", "port", "on", "with", "left", "#"}

WordDeclarations == {{"[A]"}, {"[p]"}}

WordDocuments(n) ==
  {JoinWith(w, " ") : w \in Compositions(Words, n, WordDeclarations)}

\* documents of one statement that starts with "[A]", at the outermost level
\* and inside the block of a node
LookaheadWords == {"x", "y.q", "->", "-())-", "->delegate->", "{", "\n", ":"}

LookaheadDocuments(n) ==
  {context \o JoinWith(<<"[A]">> \o w, " ") :
     context \in {"", "[N] n {\n"}, w \in SeqsUpTo(LookaheadWords, n)}

\* documents of whole statements with ports in both notations, inside and
\* outside of node blocks, on nodes declared before, after, or never
PortStatements ==
  {"[A] a", "[A] a {", "[B] b {", "}",
   "port [p] on [A] left", "port [q] on [B] top : L x",
   "port [p] with [C1] left", "port [r] on [Z] right",
   "B -> A.p", "[C1] x -())- A"}

PortDeclarations == {{"[A] a", "[A] a {"}, {"[B] b {"}}

PortDocuments(n) ==
  {JoinWith(s, "\n") : s \in Compositions(PortStatements, n, PortDeclarations)}

\* documents inside a diagram wrapper, and with what looks like one
WrapperDocuments(n) ==
  {JoinWith(<<head>> \o w, " ") :
     head \in {"[uml2.5-component] {", "[uml2.5-class] {\n", "[uml2.5-activity]",
               "[uml2.6-component] {"},
     w \in Compositions(Words, n, WordDeclarations)}

RECURSIVE Chain(_, _, _)
\* d nodes, each in the block of the one before, from node number k on, with
\* innermost in the block of the last
Chain(k, d, innermost) ==
  IF k > d THEN innermost
  ELSE "[n" \o ToString(k) \o "] n {\n" \o Chain(k + 1, d, innermost) \o "\n}"

\* the depths around MAX_DEPTH
DepthCases == (MAX_DEPTH - 1)..(MAX_DEPTH + 3)

ChainDocuments(depths) ==
  {Chain(1, d, innermost) :
     d \in depths,
     innermost \in {"", "[leaf] x @ 7,7", "port [p] on [n1] left", "n1 -> n2"}}

MaxLabelled == 3

\* documents of whole statements with labelled edges, the label at the end
\* of its line and in front of a "}" that closes a block on the same line
LabelStatements ==
  {"[uml2.5-component] {", "[N] n {", "[M] m", "}",
   "N -> M : uses it", "N -> M : uses it }", "[C1] Api N -())- M : L }"}

LabelDeclarations ==
  {{"[uml2.5-component] {"}, {"[N] n {"}, {"[M] m"}, {"[C1] Api N -())- M : L }"}}

LabelDocuments(n) ==
  {JoinWith(s, "\n") : s \in Compositions(LabelStatements, n, LabelDeclarations)}

\* the ids of the nodes a parse has declared, in the order of declaration
DeclaredIds(ts, log) ==
  LET nodeEntries == SelectSeq(log, LAMBDA e : e.kind = "node")
  IN [k \in 1..Len(nodeEntries) |-> ts[nodeEntries[k].from + 2].value]

\* the parse has declared no node id twice
DeclaresOnce ==
  pc = "returned" =>
    LET ids == DeclaredIds(tokens, parser.log)
    IN \A j, k \in 1..Len(ids) : ids[j] = ids[k] => j = k

InitParse ==
  /\ pc = "typed"
  /\ code \in WordDocuments(MaxWords) \cup LookaheadDocuments(MaxLookahead)
               \cup PortDocuments(MaxStatements) \cup WrapperDocuments(MaxWrapped)
               \cup ChainDocuments(DepthCases) \cup LabelDocuments(MaxLabelled)
  /\ tokens = << >>
  /\ result = Undefined
  /\ parser = Undefined
  /\ NoBackEnd

\* a call parseDiagram(code)
ParseDiagram ==
  /\ pc = "typed"
  /\ \E ts \in {tokenize(code, FALSE)} :
       \E run \in {parseLoop(ts, parseWrapper(ts), Len(ts) + 1)} :
         /\ tokens' = ts
         /\ parser' = run
         /\ result' = ParseResult(run, ts)
  /\ pc' = "returned"
  /\ UNCHANGED code
  /\ UNCHANGED backEnd

NextParse == ParseDiagram

SpecParse == InitParse /\ [][NextParse]_vars
----------------------------------------------------------------------------
(* Properties of the parser, under SpecParse *)

\* the token at which the statement at the head of the document lacks what
\* the grammar expects there, and the type that was expected; 0 when the
\* head of the document is none of these shapes
MissingAt(ts) ==
  IF ts[1].type = LBRACKET /\ ts[2].type # IDENTIFIER THEN 2
  ELSE IF ts[1].type = LBRACKET /\ ts[3].type # RBRACKET THEN 3
  ELSE IF ts[1].type = KEYWORD_PORT /\ ts[2].type # LBRACKET THEN 2
  ELSE IF ts[1].type = KEYWORD_PORT /\ ts[3].type # IDENTIFIER THEN 3
  ELSE 0

ExpectedAt(ts) ==
  IF ts[1].type = LBRACKET /\ ts[2].type # IDENTIFIER THEN IDENTIFIER
  ELSE IF ts[1].type = LBRACKET THEN RBRACKET
  ELSE IF ts[2].type # LBRACKET THEN LBRACKET
  ELSE IDENTIFIER

\* C13: parsing is all-or-nothing.  A call of parseToAST ends by returning or
\* by throwing; a missing expected token makes it throw a ParserError with a
\* message and the line and column of the token found instead, and parsing
\* stops there.  parseDiagram then returns the empty diagram together with
\* that error and no AST: nothing the parser had built is in the result.  A
\* call that returns gives the parser's AST and no error.
C13_AllOrNothing ==
  pc = "returned" =>
    /\ parser.status \in {"returned", "thrown"}
    /\ parser.status = "thrown" =>
         /\ result.diagram = EmptyDiagram
         /\ result.ast = Undefined
         /\ result.tokens = Undefined
         /\ result.error = parser.error
         /\ result.error.name = "ParserError"
         /\ Len(result.error.message) > 0
         /\ result.error.line = tokens[parser.i + 1].line
         /\ result.error.column = tokens[parser.i + 1].column
    /\ parser.status = "returned" =>
         /\ result.error = Undefined
         /\ result.ast = parser.ast
         /\ Len(result.diagram.nodes) = Cardinality(DOMAIN parser.ast.children)
    /\ MissingAt(tokens) # 0 =>
         /\ parser.status = "thrown"
         /\ parser.i + 1 = MissingAt(tokens)
         /\ parser.error.message =
              "Expected " \o ExpectedAt(tokens) \o " but got "
                \o tokens[MissingAt(tokens)].type

\* a node and a connector have been built when a later line lacks a token: the
\* error names that line and the result holds neither
C13_Witness ==
  /\ pc = "returned"
  /\ parser.status = "thrown"
  /\ parser.ast.rootNodes # << >>
  /\ parser.ast.connectors # << >>
  /\ result.error.line > 1
  /\ result.diagram = EmptyDiagram
  /\ result.ast = Undefined

\* C15: a parse that returns has attached no node below more than MAX_DEPTH
\* ancestors: a node declared at a nesting depth beyond MAX_DEPTH is left out
C15_DepthBound ==
  (pc = "returned" /\ parser.status = "returned") =>
    \A id \in DOMAIN result.ast.children :
      AncestorCount(result.ast, id) <= MAX_DEPTH

\* the type of the j-th token, EOF behind the last one
TypeAt(ts, j) == IF j <= Len(ts) THEN ts[j].type ELSE EOF

\* the entries of log for edges; a parse that has returned has pushed one
\* connector for each, in this order
EdgeEntries(log) == SelectSeq(log, LAMBDA e : e.kind = "edge")

\* the connector token of the edge statement of entry e: the first one from
\* the start of the statement on
ConnectorToken(ts, e) == ts[firstOf(ts, e.at, connectorTypes) + 1]

\* the text of the document at the place of a token on line 1
TextAt(text, token) == SubSeq(text, token.column, token.column + Len(token.value) - 1)

\* C16: the edgeType of a connector is the raw text of the interface connector
\* token when the edge is written in interface notation, and undefined when
\* it is written with a plain arrow or a delegate arrow
C16_EdgeTypeOfNotation ==
  (pc = "returned" /\ parser.status = "returned") =>
    /\ Len(result.ast.connectors) = Len(EdgeEntries(parser.log))
    /\ \A k \in 1..Len(result.ast.connectors) :
         LET c == result.ast.connectors[k]
             token == ConnectorToken(tokens, EdgeEntries(parser.log)[k])
         IN /\ token.type = INTERFACE_CONNECTOR =>
                 /\ c.edgeType = Chars(token.value)
                 /\ token.line = 1 => TextAt(code, token) = token.value
            /\ token.type \in {ARROW, DELEGATE_ARROW} => c.edgeType = NoType

\* entry e is a statement "port [p] <keyword> [name] side"; the keyword "with"
\* is an identifier for the lexer
PortShape(ts, e, type, keyword) ==
  /\ e.kind = "port"
  /\ e.at + 9 <= Len(ts)
  /\ ts[e.at + 2].type = LBRACKET
  /\ ts[e.at + 3].type = IDENTIFIER
  /\ ts[e.at + 4].type = RBRACKET
  /\ ts[e.at + 5].type = type
  /\ ts[e.at + 5].value = keyword
  /\ ts[e.at + 6].type = LBRACKET
  /\ ts[e.at + 7].type = IDENTIFIER
  /\ ts[e.at + 8].type = RBRACKET
  /\ ts[e.at + 9].type = SIDE

\* C17: "port [p] with [C] side" inside a node block attaches p, with
\* connectorRef C and the side, to the innermost open node; outside of every
\* node block it raises a ParserError
C17_WithForm ==
  pc = "returned" =>
    \A k \in 1..Len(parser.log) :
      LET e == parser.log[k]
      IN PortShape(tokens, e, IDENTIFIER, "with") =>
           IF e.open # << >>
           THEN \E j \in 1..Len(parser.ast.ports[e.open[Len(e.open)]]) :
                  LET port == parser.ast.ports[e.open[Len(e.open)]][j]
                  IN /\ port.id = tokens[e.at + 3].value
                     /\ port.connectorRef = tokens[e.at + 7].value
                     /\ port.side = tokens[e.at + 9].value
           ELSE /\ parser.status = "thrown"
                /\ k = Len(parser.log)
                /\ parser.error.name = "ParserError"

\* a node with the id N has been declared before entry k
DeclaredBefore(ts, log, k, N) ==
  \E j \in 1..(k - 1) : log[j].kind = "node" /\ ts[log[j].from + 2].value = N

\* the statements "port [p] on [N] side" with N declared before, in document order
AttachedPorts(ts, log, N) ==
  LET on == {k \in 1..Len(log) : /\ PortShape(ts, log[k], KEYWORD_ON, "on")
                                 /\ ts[log[k].at + 7].value = N
                                 /\ DeclaredBefore(ts, log, k, N)}
      nth(n) == CHOOSE k \in on : Cardinality({j \in on : j < k}) = n - 1
  IN [n \in 1..Cardinality(on) |->
        [id |-> ts[log[nth(n)].at + 3].value, side |-> ts[log[nth(n)].at + 9].value]]

\* C19: "port [p] on [N] side" is attached wherever it stands: the ports of a
\* node N are exactly the ports of the statements that name N after N's
\* declaration, in document order, whether N is open at the statement or not.
\* A statement that names a node not declared before it adds no port, records
\* a warning and raises no error: the cursor moves on behind the statement.
C19_PortOnAnyNode ==
  pc = "returned" =>
    /\ \A N \in DOMAIN parser.ast.ports :
         [n \in 1..Len(parser.ast.ports[N]) |->
            [id |-> parser.ast.ports[N][n].id, side |-> parser.ast.ports[N][n].side]]
           = AttachedPorts(tokens, parser.log, N)
    /\ \A k \in 1..Len(parser.log) :
         LET e == parser.log[k]
         IN PortShape(tokens, e, KEYWORD_ON, "on") =>
              /\ parser.i >= e.at + 9
              /\ ~DeclaredBefore(tokens, parser.log, k, tokens[e.at + 7].value) =>
                   \E w \in 1..Len(parser.warnings) :
                     parser.warnings[w] =
                       "Node " \o tokens[e.at + 7].value \o " not found for port "
                         \o tokens[e.at + 3].value

\* a parse that has returned: one port statement named a node that is declared
\* but not open and was attached, another named a node not declared, was
\* dropped, and a further statement was parsed behind it
C19_Witness ==
  /\ pc = "returned"
  /\ parser.status = "returned"
  /\ \E k \in 1..Len(parser.log) :
       /\ PortShape(tokens, parser.log[k], KEYWORD_ON, "on")
       /\ DeclaredBefore(tokens, parser.log, k, tokens[parser.log[k].at + 7].value)
       /\ \A n \in 1..Len(parser.log[k].open) :
            parser.log[k].open[n] # tokens[parser.log[k].at + 7].value
       /\ Len(parser.ast.ports[tokens[parser.log[k].at + 7].value]) = 1
  /\ \E k \in 1..(Len(parser.log) - 1) :
       /\ PortShape(tokens, parser.log[k], KEYWORD_ON, "on")
       /\ ~DeclaredBefore(tokens, parser.log, k, tokens[parser.log[k].at + 7].value)

\* behind the "]" at token j: IDENTIFIER connector, or IDENTIFIER IDENTIFIER
\* connector
EdgeShapeBehind(ts, j) ==
  \/ TypeAt(ts, j + 1) = IDENTIFIER /\ TypeAt(ts, j + 2) \in connectorTypes
  \/ /\ TypeAt(ts, j + 1) = IDENTIFIER
     /\ TypeAt(ts, j + 2) = IDENTIFIER
     /\ TypeAt(ts, j + 3) \in connectorTypes

\* C20: a statement that starts with "[ID]" is parsed as a named edge exactly
\* when IDENTIFIER connector or IDENTIFIER IDENTIFIER connector follows; in
\* every other case it is parsed as a node from the position of the "[": the
\* node has the id in the brackets, and the tokens the lookahead has passed
\* are its label
C20_Lookahead ==
  pc = "returned" =>
    \A k \in 1..Len(parser.log) :
      LET e == parser.log[k]
          done == k < Len(parser.log) \/ parser.status = "returned"
      IN tokens[e.at + 1].type = LBRACKET =>
           /\ e.from = e.at
           /\ e.kind = "edge" <=> EdgeShapeBehind(tokens, e.at + 3)
           /\ e.kind # "edge" =>
                /\ e.kind = "node"
                /\ done =>
                     /\ tokens[e.at + 2].value \in DOMAIN parser.ast.label
                     /\ parser.ast.label[tokens[e.at + 2].value] =
                          trim(joinValues(tokens, e.at + 3,
                                          firstOf(tokens, e.at + 3,
                                                  {AT, LBRACE, NEWLINE, EOF, RBRACE}),
                                          ""))
           /\ (e.kind = "edge" /\ done) =>
                \E n \in 1..Len(parser.ast.connectors) :
                  parser.ast.connectors[n].name = tokens[e.at + 2].value

\* the lookahead has passed two identifiers and found no connector: the
\* statement is the node A, with both identifiers in its label
C20_Witness ==
  /\ pc = "returned"
  /\ parser.status = "returned"
  /\ \E k \in 1..Len(parser.log) :
       LET e == parser.log[k]
       IN /\ e.kind = "node"
          /\ tokens[e.at + 2].value = "A"
          /\ TypeAt(tokens, e.at + 4) = IDENTIFIER
          /\ TypeAt(tokens, e.at + 5) = IDENTIFIER
          /\ TypeAt(tokens, e.at + 6) \notin connectorTypes
  /\ parser.ast.label["A"] = "x y.q"

\* every "}" of the token list closes a "{" that is open
BracesBalanced(ts) ==
  LET opened(j) == Cardinality({k \in 1..j : ts[k].type = LBRACE})
      closed(j) == Cardinality({k \in 1..j : ts[k].type = RBRACE})
  IN /\ \A j \in 1..Len(ts) : closed(j) <= opened(j)
     /\ closed(Len(ts)) = opened(Len(ts))

\* the "}" tokens that stand behind the ":" of an edge on the line of the edge
BracesBehindLabel(ts) ==
  {j \in 1..Len(ts) :
     /\ ts[j].type = RBRACE
     /\ \E c \in 1..(j - 1) :
          /\ ts[c].type = COLON /\ ts[c].line = ts[j].line
          /\ \E e \in 1..(c - 1) :
               ts[e].type \in connectorTypes /\ ts[e].line = ts[j].line}

\* C26: the label of an edge ends in front of a "}" on its line: no "}" is
\* part of a label, and a document in which such a "}" closes a block that
\* is open parses without error.
C26_LabelStopsAtBrace ==
  pc = "returned" =>
    /\ \A k \in 1..Len(parser.ast.connectors) :
         parser.ast.connectors[k].label # Undefined =>
           \A j \in 1..Len(parser.ast.connectors[k].label) :
             SubSeq(parser.ast.connectors[k].label, j, j) # "}"
    /\ (BracesBehindLabel(tokens) # {} /\ BracesBalanced(tokens)) =>
         parser.status = "returned"


\* the furthest place the cursor of parseStatement reaches while it looks
\* ahead from the place i of a "[": behind "[id]", one identifier and a second
LookaheadReach(ts, i) ==
  IF ts[i + 4].type # IDENTIFIER THEN i + 3
  ELSE IF ts[i + 5].type # IDENTIFIER THEN i + 4
  ELSE i + 5

\* the cursor of the parser p stays on the tokens, the look ahead of the
\* statement at the cursor included
OnTokens(ts, p) ==
  /\ p.i <= Len(ts) - 1
  /\ (/\ p.status = "running"
      /\ match(ts, p, LBRACKET)
      /\ bracketed(ts, p, Undefined).status = "running")
     => LookaheadReach(ts, p.i) <= Len(ts) - 1

\* the turn from p to q has taken a token, has thrown, or has found the end
\* of the outermost block
Progress(p, q) ==
  \/ q.status = "thrown"
  \/ q.status = "returned" /\ q.i >= p.i
  \/ q.status = "running" /\ q.i > p.i

RECURSIVE EveryTurn(_, _, _)
\* the cursor stays on the tokens and every turn makes progress, over the n
\* turns of the loop from the parser p on: over the first half of them, and
\* over the rest from the parser the first half leaves
EveryTurn(ts, p, n) ==
  IF n = 0 \/ p.status # "running" THEN OnTokens(ts, p)
  ELSE IF n = 1
  THEN /\ OnTokens(ts, p)
       /\ Progress(p, parseStep(ts, p))
       /\ OnTokens(ts, parseStep(ts, p))
  ELSE /\ EveryTurn(ts, p, n \div 2)
       /\ EveryTurn(ts, parseLoop(ts, p, n \div 2), n - (n \div 2))

\* C29: parseToAST ends on the tokens of every text: the cursor never passes
\* the EOF token, during look ahead and after a rewind neither, and every turn
\* of the statement loop takes at least one token or throws a ParserError.
C29_Terminates ==
  pc = "returned" =>
    /\ parser.status \in {"returned", "thrown"}
    /\ EveryTurn(tokens, parseWrapper(tokens), Len(tokens) + 1)

\* a parse has returned with the cursor on EOF after it has looked ahead over
\* a named edge and put the cursor back, skipped a newline and closed a block
C29_Witness ==
  /\ pc = "returned"
  /\ parser.status = "returned"
  /\ parser.i = Len(tokens) - 1
  /\ \E k \in 1..Len(parser.log) :
       /\ parser.log[k].kind = "edge"
       /\ tokens[parser.log[k].at + 1].type = LBRACKET
       /\ parser.log[k].from = parser.log[k].at
  /\ \E k \in 1..Len(parser.log) :
       parser.log[k].kind = "node" /\ parser.log[k].open # << >>
  /\ \E k \in 1..Len(tokens) : tokens[k].type = NEWLINE
----------------------------------------------------------------------------
(* The priority of the boundary port, under Spec *)

\* the ports declared on the container of c that refer to c by its name
PortsByRef(a, c) ==
  {i \in 1..Len(a.ports[Container(a, c)]) :
     c.name # Undefined /\ a.ports[Container(a, c)][i].connectorRef = c.name}

\* the ports declared on the container of c whose id is the port qualifier on
\* the nested end of c
PortsByQualifier(a, c) ==
  {i \in 1..Len(a.ports[Container(a, c)]) :
     /\ NestedQualifier(a, c) # Undefined
     /\ a.ports[Container(a, c)][i].id = NestedQualifier(a, c)}

\* C18: for a crossing connector the builder reuses the container's port whose
\* connectorRef is the connector's name; otherwise the container's port whose
\* id is the connector's port qualifier; a port is created only when neither
\* exists, on the container and with the connector's label.  When a port is
\* reused no port is added, and both synthesized connectors carry the id of
\* the port.
C18_PortPriority ==
  (Built /\ SingleConnector) =>
    LET c == TheConnector
    IN Crossing(ast, c) =>
         LET declared == ast.ports[Container(ast, c)]
             int == InternalOf(diagram, c)
             ext == ExternalOf(diagram, c)
             added == Len(diagram.ports) - DeclaredPortCount(ast)
         IN /\ int.sourcePort = ext.targetPort
            /\ added \in {0, 1}
            /\ PortsByRef(ast, c) # {} =>
                 /\ added = 0
                 /\ int.sourcePort = declared[SetMin(PortsByRef(ast, c))].id
            /\ (PortsByRef(ast, c) = {} /\ PortsByQualifier(ast, c) # {}) =>
                 /\ added = 0
                 /\ int.sourcePort = NestedQualifier(ast, c)
            /\ added = 1 =>
                 /\ PortsByRef(ast, c) = {}
                 /\ PortsByQualifier(ast, c) = {}
                 /\ diagram.ports[Len(diagram.ports)].nodeId = Container(ast, c)
                 /\ diagram.ports[Len(diagram.ports)].label = c.label
                 /\ diagram.ports[Len(diagram.ports)].id = int.sourcePort

\* the container declares p1 and, with a reference to C1, p2; the connector C1
\* crosses into it with the qualifier p1 and a label, and is routed through p2
C18_Witness ==
  /\ Built
  /\ SingleConnector
  /\ Crossing(ast, TheConnector)
  /\ TheConnector.name = "C1"
  /\ TheConnector.label = "L"
  /\ NestedQualifier(ast, TheConnector) = "p1"
  /\ PortsByRef(ast, TheConnector) # {}
  /\ PortsByQualifier(ast, TheConnector) # {}
  /\ InternalOf(diagram, TheConnector).sourcePort = "p2"
  /\ ExternalOf(diagram, TheConnector).targetPort = "p2"
  /\ Len(diagram.ports) = 2

\* C21: a connector whose two ends have the same parent, two roots included,
\* yields exactly one diagram connector, with the id, the ends, the port
\* qualifiers, the label, the type, isDelegate and the stereotype of the
\* connector, flagged neither auto-generated nor cross-level, and no port
\* is added to the declared ones.
C21_SameLevelUnchanged ==
  (Built /\ SingleConnector) =>
    LET c == TheConnector
    IN AstParent(ast, c.sourceNodeId) = AstParent(ast, c.targetNodeId)
       => /\ Len(diagram.connectors) = 1
          /\ LET k == diagram.connectors[1]
             IN /\ k.id = c.id
                /\ k.source = c.sourceNodeId /\ k.target = c.targetNodeId
                /\ k.sourcePort = c.sourcePortId /\ k.targetPort = c.targetPortId
                /\ k.label = c.label /\ k.type = c.edgeType
                /\ k.isDelegate = c.isDelegate /\ k.stereotype = c.stereotype
                /\ ~k.isAutoGenerated /\ ~k.isCrossLevel
          /\ Len(diagram.ports) = DeclaredPortCount(ast)

\* two different children of one container are joined, at a port
C21_Witness ==
  /\ Built /\ SingleConnector
  /\ IsNested(ast, TheConnector.sourceNodeId)
  /\ AstParent(ast, TheConnector.sourceNodeId) = AstParent(ast, TheConnector.targetNodeId)
  /\ TheConnector.sourceNodeId # TheConnector.targetNodeId
  /\ TheConnector.targetPortId # Undefined
  /\ Len(diagram.connectors) = 1

\* C22: a connector whose two ends are nested under two different parents
\* yields exactly one diagram connector, from the source to the target of the
\* connector with its fields, auto-generated by no one and not cross-level,
\* and no port is added; the build completes.
C22_SiblingSubtrees ==
  (pc = "built" /\ SingleConnector) =>
    LET c == TheConnector
    IN (/\ IsNested(ast, c.sourceNodeId)
        /\ IsNested(ast, c.targetNodeId)
        /\ AstParent(ast, c.sourceNodeId) # AstParent(ast, c.targetNodeId))
       => /\ diagram.connectors =
               <<[id |-> c.id, source |-> c.sourceNodeId, target |-> c.targetNodeId,
                  sourcePort |-> c.sourcePortId, targetPort |-> c.targetPortId,
                  type |-> c.edgeType, label |-> c.label,
                  isDelegate |-> c.isDelegate, stereotype |-> c.stereotype,
                  isAutoGenerated |-> FALSE, isCrossLevel |-> FALSE]>>
          /\ Len(diagram.ports) = DeclaredPortCount(ast)
          /\ Len(diagram.nodes) = Cardinality(Declared(ast))

\* the two ends are children of two roots, and the connector is an interface
C22_Witness ==
  /\ pc = "built" /\ SingleConnector
  /\ IsNested(ast, TheConnector.sourceNodeId)
  /\ IsNested(ast, TheConnector.targetNodeId)
  /\ AstParent(ast, TheConnector.sourceNodeId) # AstParent(ast, TheConnector.targetNodeId)
  /\ IsRoot(ast, AstParent(ast, TheConnector.sourceNodeId))
  /\ IsRoot(ast, AstParent(ast, TheConnector.targetNodeId))
  /\ IsInterfaceNotation(TheConnector.edgeType)
  /\ Len(diagram.connectors) = 1
----------------------------------------------------------------------------
(* Part 5: serializeAST of src/store/diagramStore.ts, the inverse of the   *)
(* parser.  diagramStore.ts reads the connector list as ast.edges, the     *)
(* field of src/types/ast.ts; the token parser returns it as connectors.   *)
(* The arena holds one connector list, which both names denote.            *)

\* String(n) of an integer n
IntegerText(n) == IF n < 0 THEN "-" \o ToString(0 - n) ELSE ToString(n)

\* `${Math.round(v)}` of a coordinate v held in units of 1/Scale pixel:
\* Math.round rounds a half towards plus infinity
RoundedText(v) == IntegerText((2 * v + Scale) \div (2 * Scale))

\* the text of a sequence of characters
RECURSIVE TextOf(_)
TextOf(chars) == IF chars = << >> THEN "" ELSE Head(chars) \o TextOf(Tail(chars))

\* `port.label ? ` : ${port.label}` : ''`, of a port and of an edge alike
labelSuffix(label) ==
  IF label = Undefined \/ label = "" THEN "" ELSE " : " \o label

\* the concatenation of a sequence of lists of lines
RECURSIVE Concat(_)
Concat(lists) == IF lists = << >> THEN << >> ELSE Head(lists) \o Concat(Tail(lists))

\* serializeNode: the lines of one node, its ports and its subtree
RECURSIVE serializeNode(_, _, _)
serializeNode(a, id, indent) ==
  LET hasChildren == Len(a.children[id]) > 0
      coords == IF a.pos[id].has
                THEN " @ " \o RoundedText(a.pos[id].x) \o "," \o RoundedText(a.pos[id].y)
                ELSE ""
      portLines(margin) ==
        [k \in 1..Len(a.ports[id]) |->
           margin \o "port [" \o a.ports[id][k].id \o "] on [" \o id \o "] "
                  \o a.ports[id][k].side \o labelSuffix(a.ports[id][k].label)]
      childLines(k) == serializeNode(a, a.children[id][k], indent \o "  ")
      blocks == [k \in 1..Len(a.children[id]) |-> childLines(k)]
  IN IF hasChildren
     THEN <<indent \o "[" \o id \o "] " \o a.label[id] \o coords \o " {">>
          \o portLines(indent \o "  ")
          \o Concat(blocks)
          \o <<indent \o "}">>
     ELSE <<indent \o "[" \o id \o "] " \o a.label[id] \o coords>>
          \o portLines(indent)

\* the line of one edge
serializeEdge(edge) ==
  LET source == IF edge.sourcePortId # Undefined /\ edge.sourcePortId # ""
                THEN edge.sourceNodeId \o "." \o edge.sourcePortId
                ELSE edge.sourceNodeId
      target == IF edge.targetPortId # Undefined /\ edge.targetPortId # ""
                THEN edge.targetNodeId \o "." \o edge.targetPortId
                ELSE edge.targetNodeId
  IN IF edge.isDelegate
     THEN "  " \o source \o " ->delegate-> " \o target \o labelSuffix(edge.label)
     ELSE IF edge.edgeType # NoType
     THEN "  " \o source \o " " \o TextOf(edge.edgeType) \o " " \o target
               \o labelSuffix(edge.label)
     ELSE "  " \o source \o " -> " \o target \o labelSuffix(edge.label)

serializeAST(a) ==
  LET roots == [k \in 1..Len(a.rootNodes) |-> serializeNode(a, a.rootNodes[k], "  ")]
      edges == [k \in 1..Len(a.connectors) |-> serializeEdge(a.connectors[k])]
  IN JoinWith(<<"[" \o a.type \o "] {">> \o Concat(roots) \o edges \o <<"}">>, "\n")
----------------------------------------------------------------------------
(* The round trip: a document is parsed, the AST is serialized, and the    *)
(* text of the serializer is parsed again.                                 *)

MaxRoundTrip == 4

\* whole statements: nodes with and without coordinates, a block, ports with
\* and without a label, and every notation of a connector
RoundTripStatements ==
  {"[A] Alpha", "[B] Beta item @ 120,-40 {", "[C] c @ 7,7", "}",
   "port [p] on [B] left : API x", "port [q] on [A] top",
   "A -> B.p", "C --> A : uses it", "B.p ->delegate-> C", "A -())- B",
   "[C1] A -(()- C", "[C2] Export A -())- B.p"}

RoundTripDeclarations ==
  {{"[A] Alpha"}, {"[B] Beta item @ 120,-40 {"}, {"[C] c @ 7,7"},
   {"port [p] on [B] left : API x"}, {"port [q] on [A] top"},
   {"[C1] A -(()- C"}, {"[C2] Export A -())- B.p"}}

RoundTripDocuments(n) ==
  {JoinWith(s, "\n") : s \in Compositions(RoundTripStatements, n, RoundTripDeclarations)}

InitRoundTrip ==
  /\ pc = "typed"
  /\ code \in RoundTripDocuments(MaxRoundTrip)
  /\ tokens = << >>
  /\ result = Undefined
  /\ parser = Undefined
  /\ NoBackEnd

\* a call parseToAST(code), of the typed text and of the serializer's text
ParseToAST ==
  /\ pc \in {"typed", "serialized"}
  /\ \E run \in {parseToAST(code)} :
       /\ parser' = run
       /\ IF run.status = "returned"
          THEN /\ ast' = run.ast
               /\ pc' = IF pc = "typed" THEN "parsed" ELSE "reparsed"
          ELSE /\ ast' = ast
               /\ pc' = IF pc = "typed" THEN "thrown" ELSE "rethrown"
  /\ UNCHANGED <<code, tokens, result, diagram, engine, trace, runs, first>>

\* a call serializeAST(ast); first keeps the AST that went in
SerializeAST ==
  /\ pc = "parsed"
  /\ code' = serializeAST(ast)
  /\ first' = ast
  /\ pc' = "serialized"
  /\ UNCHANGED <<ast, tokens, result, parser, diagram, engine, trace, runs>>

NextRoundTrip == ParseToAST \/ SerializeAST

SpecRoundTrip == InitRoundTrip /\ [][NextRoundTrip]_vars

\* a label without its whitespace; no label and the empty label are alike
Unspaced(label) ==
  IF label = Undefined THEN ""
  ELSE LET solid(char) == char \notin {" ", "\t", "\r", "\n"}
       IN TextOf(SelectSeq(Chars(label), solid))

\* a port qualifier; none and the empty one are alike
Qualifier(portId) == IF portId = Undefined THEN "" ELSE portId

SamePorts(p, q) ==
  /\ Len(p) = Len(q)
  /\ \A k \in 1..Len(p) :
       /\ p[k].id = q[k].id
       /\ p[k].side = q[k].side
       /\ Unspaced(p[k].label) = Unspaced(q[k].label)

SameNodeTree(a, b) ==
  /\ a.rootNodes = b.rootNodes
  /\ a.children = b.children
  /\ a.pos = b.pos
  /\ DOMAIN a.label = DOMAIN b.label
  /\ \A id \in DOMAIN a.label : Unspaced(a.label[id]) = Unspaced(b.label[id])
  /\ DOMAIN a.ports = DOMAIN b.ports
  /\ \A id \in DOMAIN a.ports : SamePorts(a.ports[id], b.ports[id])

\* the two connectors join the same ends in the same notation
SameEnds(c, d) ==
  /\ c.sourceNodeId = d.sourceNodeId
  /\ c.targetNodeId = d.targetNodeId
  /\ Qualifier(c.sourcePortId) = Qualifier(d.sourcePortId)
  /\ Qualifier(c.targetPortId) = Qualifier(d.targetPortId)
  /\ Unspaced(c.label) = Unspaced(d.label)
  /\ c.isDelegate = d.isDelegate
  /\ c.edgeType = d.edgeType

SameConnectors(a, b) ==
  /\ Len(a.connectors) = Len(b.connectors)
  /\ \A k \in 1..Len(a.connectors) :
       /\ SameEnds(a.connectors[k], b.connectors[k])
       /\ a.connectors[k].id = b.connectors[k].id
       /\ a.connectors[k].name = b.connectors[k].name

StructurallyEqual(a, b) == SameNodeTree(a, b) /\ SameConnectors(a, b)

\* C12: the text of serializeAST parses, and it parses to an AST that is
\* structurally equal to the one serialized: the same node tree, ports and
\* connectors, label whitespace aside.
C12_RoundTrip ==
  /\ pc # "rethrown"
  /\ pc = "reparsed" => StructurallyEqual(first, ast)

\* what the round trip keeps: the node tree and the ports, and of every
\* connector its place in the list, its ends, its label and its notation
RoundTripKeeps ==
  /\ pc # "rethrown"
  /\ pc = "reparsed" =>
       /\ SameNodeTree(first, ast)
       /\ Len(first.connectors) = Len(ast.connectors)
       /\ \A k \in 1..Len(ast.connectors) :
            SameEnds(first.connectors[k], ast.connectors[k])

\* what it loses: the name of a named connector, and with it the id
NamesLost ==
  pc = "reparsed" =>
    \A k \in 1..Len(ast.connectors) :
      /\ ast.connectors[k].name = Undefined
      /\ ast.connectors[k].id = "conn-" \o ToString(k - 1)
----------------------------------------------------------------------------
(* Part 6: the two stores.  src/store.ts keeps the code and the flat       *)
(* Diagram, src/store/diagramStore.ts the code and the AST.  store.ts is   *)
(* written for a parseDiagram that returns the Diagram; of the             *)
(* ParseResult of src/parser/index.ts it is the field diagram.             *)

\* `${n}` of a number n held in units of 1/Scale pixel
NumberText(v) ==
  LET magnitude == IF v < 0 THEN 0 - v ELSE v
      sign == IF v < 0 THEN "-" ELSE ""
      whole == ToString(magnitude \div Scale)
      millionths == ((magnitude % Scale) * 1000000) \div Scale
      padded == ToString(1000000 + millionths)
      last == SetMax({k \in 2..7 : SubSeq(padded, k, k) # "0"})
  IN IF magnitude % Scale = 0 THEN sign \o whole
     ELSE sign \o whole \o "." \o SubSeq(padded, 2, last)

\* text.split('\n')
split(text) ==
  LET breaks == {k \in 1..Len(text) : SubSeq(text, k, k) = "\n"}
      break(j) == IF j = 0 THEN 0
                  ELSE IF j = Cardinality(breaks) + 1 THEN Len(text) + 1
                  ELSE CHOOSE k \in breaks : Cardinality({b \in breaks : b < k}) = j - 1
  IN [j \in 1..(Cardinality(breaks) + 1) |->
        SubSeq(text, break(j - 1) + 1, break(j) - 1)]

\* the first index from q on whose character is not in chars
skipOver(str, q, chars) ==
  SetMin({k \in q..(Len(str) + 1) : k = Len(str) + 1 \/ SubSeq(str, k, k) \notin chars})

\* where a match of /-?\d+/ that starts at q ends, 0 if there is none
numberEnd(str, q) ==
  LET digits == IF q <= Len(str) /\ SubSeq(str, q, q) = "-" THEN q + 1 ELSE q
      end == skipOver(str, digits, {"0", "1", "2", "3", "4", "5", "6", "7", "8", "9"})
  IN IF end > digits THEN end ELSE 0

\* where a match of /@\s*-?\d+,\s*-?\d+/ that starts at p ends, 0 if there is none
coordinatesEnd(str, p) ==
  LET space == {" ", "\t", "\r", "\n"}
      afterX == numberEnd(str, skipOver(str, p + 1, space))
  IN IF SubSeq(str, p, p) # "@" \/ afterX = 0 THEN 0
     ELSE IF afterX > Len(str) \/ SubSeq(str, afterX, afterX) # "," THEN 0
     ELSE numberEnd(str, skipOver(str, afterX + 1, space))

\* trimmed.replace(/@\s*-?\d+,\s*-?\d+/, replacement): the first match
replaceCoordinates(trimmed, replacement) ==
  LET starts == {p \in 1..Len(trimmed) : coordinatesEnd(trimmed, p) # 0}
  IN IF starts = {} THEN trimmed
     ELSE SubSeq(trimmed, 1, SetMin(starts) - 1) \o replacement
          \o SubSeq(trimmed, coordinatesEnd(trimmed, SetMin(starts)), Len(trimmed))

\* the callback of lines.map: the line of a moved node gets its position
editLine(line, nodesToUpdate, newNodes) ==
  LET trimmed == trim(line)
      declares(nodeId) ==
        /\ Len(trimmed) >= Len(nodeId) + 2
        /\ SubSeq(trimmed, 1, Len(nodeId) + 2) = "[" \o nodeId \o "]"
      hits == {k \in 1..Len(nodesToUpdate) : declares(nodesToUpdate[k])}
      written(updatedNode) ==
        IF \E k \in 1..Len(trimmed) : SubSeq(trimmed, k, k) = "@"
        THEN replaceCoordinates(trimmed, "@ " \o NumberText(updatedNode.x) \o ","
                                              \o NumberText(updatedNode.y))
        ELSE trimmed \o " @ " \o NumberText(updatedNode.x) \o ","
                     \o NumberText(updatedNode.y)
  IN IF hits = {} THEN line
     ELSE written(newNodes[CHOOSE k \in 1..Len(newNodes) :
                             newNodes[k].id = nodesToUpdate[SetMin(hits)]])

\* getDescendants with a slip: the children only
getDescendants_ChildrenOnly(nodes, nodeId) ==
  LET isChild(n) == n.parentId = nodeId
      children == SelectSeq(nodes, isChild)
  IN [k \in 1..Len(children) |-> children[k].id]

\* getDescendants: the children, then the descendants of each child
RECURSIVE getDescendants(_, _)
getDescendants(nodes, nodeId) ==
  LET isChild(n) == n.parentId = nodeId
      children == SelectSeq(nodes, isChild)
  IN [k \in 1..Len(children) |-> children[k].id]
     \o Concat([k \in 1..Len(children) |-> getDescendants(nodes, children[k].id)])

\* updateNodePosition of store.ts on the state [code, diagram]
updateNodePosition(state, id, x, y) ==
  IF \A k \in 1..Len(state.diagram.nodes) : state.diagram.nodes[k].id # id
  THEN state
  ELSE LET nodes == state.diagram.nodes
           movedNode == nodes[SetMin({k \in 1..Len(nodes) : nodes[k].id = id})]
           deltaX == x - movedNode.x
           deltaY == y - movedNode.y
           moved(nodesToUpdate) ==
             LET includes(nodeId) ==
                   \E k \in 1..Len(nodesToUpdate) : nodesToUpdate[k] = nodeId
                 rewritten(newNodes) ==
                   LET lines == split(state.code)
                   IN [code |-> JoinWith([k \in 1..Len(lines) |->
                                            editLine(lines[k], nodesToUpdate, newNodes)],
                                         "\n"),
                       diagram |-> [state.diagram EXCEPT !.nodes = newNodes]]
             IN rewritten([k \in 1..Len(nodes) |->
                   IF includes(nodes[k].id)
                   THEN [nodes[k] EXCEPT
                           !.x = IF nodes[k].id = id THEN x ELSE @ + deltaX,
                           !.y = IF nodes[k].id = id THEN y ELSE @ + deltaY]
                   ELSE nodes[k]])
       IN moved(<<id>> \o getDescendants(nodes, id))

\* `node.x || 0`, `node.y || 0`
xOr0(a, id) == IF a.pos[id].has THEN a.pos[id].x ELSE 0

yOr0(a, id) == IF a.pos[id].has THEN a.pos[id].y ELSE 0

\* moveNodeTree: the node, then its children from first to last
RECURSIVE moveNodeTree(_, _, _, _, _)
moveNodeTree(a, n, dx, dy, k) ==
  IF k = 0
  THEN moveNodeTree([a EXCEPT !.pos[n] = [has |-> TRUE, x |-> xOr0(a, n) + dx,
                                          y |-> yOr0(a, n) + dy]],
                    n, dx, dy, 1)
  ELSE IF k > Len(a.children[n]) THEN a
  ELSE moveNodeTree(moveNodeTree(a, a.children[n][k], dx, dy, 0), n, dx, dy, k + 1)

\* updateNodePositionInTree: the first node in document order that has the id
RECURSIVE updateNodePositionInTree(_, _, _, _, _)
updateNodePositionInTree(a, nodes, nodeId, x, y) ==
  IF nodes = << >> THEN [updated |-> FALSE, ast |-> a]
  ELSE IF Head(nodes) = nodeId
  THEN [updated |-> TRUE,
        ast |-> moveNodeTree(a, nodeId, x - xOr0(a, nodeId), y - yOr0(a, nodeId), 0)]
  ELSE LET below == updateNodePositionInTree(a, a.children[Head(nodes)], nodeId, x, y)
       IN IF below.updated THEN below
          ELSE updateNodePositionInTree(a, Tail(nodes), nodeId, x, y)

\* updateNodePosition of diagramStore.ts on the state [code, ast]
updateTreeNodePosition(state, nodeId, x, y) ==
  LET serialized(newAST) == [ast |-> newAST, code |-> serializeAST(newAST)]
  IN serialized(updateNodePositionInTree(state.ast, state.ast.rootNodes, nodeId, x, y).ast)
----------------------------------------------------------------------------
(* The stores under setCode and a bounded number of drags.  engine tells   *)
(* the store: "flat" is store.ts, "tree" is diagramStore.ts.  trace holds  *)
(* the last drag: its arguments and the state it started from.             *)

MaxDrags == 2

\* the text of the editor: as the serializer writes it, without the wrapper,
\* with coordinates on some nodes or on none, and with no node at all
StoreDocuments ==
  {"[uml2.5-component] {\n  [A] a @ 10,20\n  [B] b @ 200,0 {\n    port [p] on [B] left\n    [B1] h @ 220,20 {\n      [B2] deep @ 230,40\n    }\n    [B3] l @ 220,80\n  }\n  A -> B2\n}",
   "[A] a\n[B] b @ 200,0 {\n[B1] h {\n[B2] deep @ 230,40\n}\n[B3] l\n}\nB3 -())- A",
   "[B] b @ 5, -7 {\n   [B1] h @-3,4\n   [B3] l\n}\n[A] a",
   "[A] a\n[B] b {\n  [B1] h\n}",
   "[A] a @ 0,0\n[C] c @ 200,200\n[C1] A -> C",
   ""}

\* the ids a drag names; Z is declared in no document
DragIds == {"A", "B", "B1", "B2", "B3", "C", "Z"}

\* the positions a drag names, one of them between two pixels
DragX == {Px(0), Px(-30), Px(35) + Scale \div 2}

DragY == {Px(20), Px(230)}

InitStore ==
  /\ pc = "typed"
  /\ engine \in {"flat", "tree"}
  /\ code \in StoreDocuments
  /\ ast = Undefined
  /\ diagram = EmptyDiagram
  /\ trace = << >>
  /\ runs = 0
  /\ first = << >>
  /\ tokens = << >>
  /\ result = Undefined
  /\ parser = Undefined

\* setCode(code) of either store
SetCode ==
  /\ pc = "typed"
  /\ \E run \in {parseToAST(code)} :
       IF run.status # "returned"
       THEN /\ pc' = "thrown"
            /\ UNCHANGED <<ast, diagram>>
       ELSE /\ pc' = "set"
            /\ IF engine = "flat"
               THEN /\ diagram' = convertASTToDiagram(run.ast)
                    /\ ast' = ast
               ELSE /\ ast' = run.ast
                    /\ diagram' = diagram
  /\ UNCHANGED <<code, engine, trace, runs, first, tokens, result, parser>>

\* updateNodePosition(id, x, y) of store.ts
UpdateNodePosition ==
  /\ pc = "set"
  /\ engine = "flat"
  /\ runs < MaxDrags
  /\ \E id \in DragIds, x \in DragX, y \in DragY :
       \E next \in {updateNodePosition([code |-> code, diagram |-> diagram], id, x, y)} :
         /\ code' = next.code
         /\ diagram' = next.diagram
         /\ trace' = <<[id |-> id, x |-> x, y |-> y, code |-> code,
                        ast |-> ast, diagram |-> diagram]>>
  /\ runs' = runs + 1
  /\ UNCHANGED <<pc, engine, ast, first, tokens, result, parser>>

\* updateNodePosition(nodeId, x, y) of diagramStore.ts
UpdateTreeNodePosition ==
  /\ pc = "set"
  /\ engine = "tree"
  /\ runs < MaxDrags
  /\ \E id \in DragIds, x \in DragX, y \in DragY :
       \E next \in {updateTreeNodePosition([code |-> code, ast |-> ast], id, x, y)} :
         /\ code' = next.code
         /\ ast' = next.ast
         /\ trace' = <<[id |-> id, x |-> x, y |-> y, code |-> code,
                        ast |-> ast, diagram |-> diagram]>>
  /\ runs' = runs + 1
  /\ UNCHANGED <<pc, engine, diagram, first, tokens, result, parser>>

NextStore == SetCode \/ UpdateNodePosition \/ UpdateTreeNodePosition

SpecStore == InitStore /\ [][NextStore]_vars
----------------------------------------------------------------------------
(* The drag, read off the two states around it *)

\* the ids of the nodes of the store in the state [ast, diagram]
StoreNodes(state) ==
  IF engine = "flat"
  THEN {state.diagram.nodes[k].id : k \in 1..Len(state.diagram.nodes)}
  ELSE DOMAIN state.ast.children

\* where the store in that state has the node: no coordinates count as 0
StoreX(state, id) ==
  IF engine = "flat"
  THEN state.diagram.nodes[CHOOSE k \in 1..Len(state.diagram.nodes) :
                             state.diagram.nodes[k].id = id].x
  ELSE xOr0(state.ast, id)

StoreY(state, id) ==
  IF engine = "flat"
  THEN state.diagram.nodes[CHOOSE k \in 1..Len(state.diagram.nodes) :
                             state.diagram.nodes[k].id = id].y
  ELSE yOr0(state.ast, id)

\* the node the store in that state has id nested in, Undefined for a root
StoreParent(state, id) ==
  IF engine = "flat"
  THEN state.diagram.nodes[CHOOSE k \in 1..Len(state.diagram.nodes) :
                             state.diagram.nodes[k].id = id].parentId
  ELSE AstParent(state.ast, id)

\* id is nested in top, at any depth
RECURSIVE Within(_, _, _)
Within(state, id, top) ==
  /\ StoreParent(state, id) # Undefined
  /\ \/ StoreParent(state, id) = top
     \/ Within(state, StoreParent(state, id), top)

Now == [ast |-> ast, diagram |-> diagram]

\* the last drag moved the subtree of its node by one vector and nothing else
DragMovesSubtree(drag) ==
  /\ StoreNodes(Now) = StoreNodes(drag)
  /\ StoreX(Now, drag.id) = drag.x
  /\ StoreY(Now, drag.id) = drag.y
  /\ \A n \in StoreNodes(drag) :
       /\ StoreParent(Now, n) = StoreParent(drag, n)
       /\ IF Within(drag, n, drag.id)
          THEN /\ StoreX(Now, n) = StoreX(drag, n) + (drag.x - StoreX(drag, drag.id))
               /\ StoreY(Now, n) = StoreY(drag, n) + (drag.y - StoreY(drag, drag.id))
          ELSE n # drag.id =>
                 IF engine = "flat"
                 THEN StoreX(Now, n) = StoreX(drag, n) /\ StoreY(Now, n) = StoreY(drag, n)
                 ELSE ast.pos[n] = drag.ast.pos[n]

\* C11 as stated: a drag of a node moves its subtree by one vector and no
\* other node, and a drag of an id that names no node leaves the state of
\* the store, code included, as it was; after any sequence of drags.
C11_DragAsStated ==
  trace # << >> =>
    IF trace[1].id \in StoreNodes(trace[1])
    THEN DragMovesSubtree(trace[1])
    ELSE /\ ast = trace[1].ast
         /\ diagram = trace[1].diagram
         /\ code = trace[1].code

\* C11: a drag of a node puts it at exactly (x, y), translates every
\* transitive descendant by (x - oldX, y - oldY) and moves no other node; a
\* drag of an id that names no node moves no node: store.ts keeps its whole
\* state, diagramStore.ts keeps its AST and sets code to the serialization
\* of that AST.  After any sequence of drags.
C11_DragMovesSubtree ==
  trace # << >> =>
    IF trace[1].id \in StoreNodes(trace[1])
    THEN DragMovesSubtree(trace[1])
    ELSE /\ ast = trace[1].ast
         /\ diagram = trace[1].diagram
         /\ IF engine = "flat" THEN code = trace[1].code
            ELSE code = serializeAST(ast)

\* a second drag has moved a node that has a descendant below its children,
\* and by another vector than none
C11_Witness ==
  /\ runs = 2
  /\ trace[1].id \in StoreNodes(trace[1])
  /\ \E n \in StoreNodes(trace[1]) :
       /\ Within(trace[1], n, trace[1].id)
       /\ StoreParent(trace[1], n) # trace[1].id
       /\ StoreX(Now, n) # StoreX(trace[1], n)

\* a drag has named an id that is no node of a store that has nodes
C11_MissingWitness ==
  /\ trace # << >>
  /\ trace[1].id \notin StoreNodes(trace[1])
  /\ StoreNodes(trace[1]) # {}

----------------------------------------------------------------------------
(* The text and the diagram of the flat store *)

\* the diagram that parsing the code of the store yields
Reparsed == parseDiagram(code).diagram

\* the node of a diagram with the id
NodeOf(d, id) == d.nodes[CHOOSE k \in 1..Len(d.nodes) : d.nodes[k].id = id]

\* C25: in the flat store, after setCode with text that parses and any
\* sequence of drags, parsing the code of the store again yields every node
\* of the diagram of the store, at the x and y the diagram has for it.
C25_TextMatchesDiagram ==
  (engine = "flat" /\ pc = "set") =>
    \A k \in 1..Len(diagram.nodes) :
      /\ \E j \in 1..Len(Reparsed.nodes) : Reparsed.nodes[j].id = diagram.nodes[k].id
      /\ NodeOf(Reparsed, diagram.nodes[k].id).x = diagram.nodes[k].x
      /\ NodeOf(Reparsed, diagram.nodes[k].id).y = diagram.nodes[k].y
----------------------------------------------------------------------------
(* Properties of pass 2 of autoLayoutNodes, read off the record of its     *)
(* placements                                                              *)

\* the flat store has laid the diagram out at least once
FlatLaidOut == engine = "flat" /\ runs >= 1

\* what autoLayoutNodes takes to be the port a root is connected to
LinkOf(root) ==
  portConnections(<< >>, diagram.connectors, diagram.ports, diagram.nodes)[root]

IsLinked(root) ==
  root \in DOMAIN portConnections(<< >>, diagram.connectors, diagram.ports, diagram.nodes)

\* the ports of the diagram that node owns under the id portId
OwnedPorts(node, portId) ==
  {i \in 1..Len(diagram.ports) :
     diagram.ports[i].nodeId = node /\ diagram.ports[i].id = portId}

\* the node list with every node at its place of the recorded positions
NodesAt(positions) ==
  [i \in 1..Len(diagram.nodes) |->
     [diagram.nodes[i] EXCEPT !.x = positions[diagram.nodes[i].id].x,
                              !.y = positions[diagram.nodes[i].id].y]]

\* the box of a node under the recorded positions
BoxAt(node, positions) ==
  getNodePositionBounds(NodesAt(positions)[IndexOfId(diagram.nodes, node)],
                        NodesAt(positions))

\* at is one standoff away from the midpoint of the side of the box
AtStandoff(at, box, side) ==
  CASE side = "left" -> /\ at.x = box.minX - Px(spacing)
                        /\ 2 * at.y = box.minY + box.maxY
    [] side = "right" -> /\ at.x = box.maxX + Px(spacing)
                         /\ 2 * at.y = box.minY + box.maxY
    [] side = "top" -> /\ at.y = box.minY - Px(spacing)
                       /\ 2 * at.x = box.minX + box.maxX
    [] side = "bottom" -> /\ at.y = box.maxY + Px(spacing)
                          /\ 2 * at.x = box.minX + box.maxX
    [] OTHER -> FALSE

\* C23: a root that is placed at a port stands one standoff away from the
\* midpoint of a side of the box of the node that owns the port, the box as
\* it is when the root is placed, and the side is the side of that port:
\* left and top towards smaller, right and bottom towards larger coordinates.
C23_PortAnchor ==
  FlatLaidOut =>
    \A k \in 1..Len(trace) :
      (/\ trace[k].kind = "port"
       /\ OwnedPorts(LinkOf(trace[k].root).portNodeId,
                     LinkOf(trace[k].root).portId) # {})
      => AtStandoff(trace[k].after[trace[k].root],
                    BoxAt(LinkOf(trace[k].root).portNodeId, trace[k].before),
                    diagram.ports[SetMin(OwnedPorts(LinkOf(trace[k].root).portNodeId,
                                                    LinkOf(trace[k].root).portId))].side)

\* C28: every root gets a position in pass 2, on the grid or at a port;
\* also a root whose connector names a port that the diagram does not have.
C28_EveryRootPlaced ==
  FlatLaidOut =>
    \A i \in 1..Len(diagram.nodes) :
      diagram.nodes[i].parentId = Undefined =>
        \E k \in 1..Len(trace) :
          /\ trace[k].root = diagram.nodes[i].id
          /\ trace[k].kind \in {"grid", "port"}

\* no two ports of the diagram have the same id
PortIdsDistinct ==
  \A i, j \in 1..Len(diagram.ports) :
    diagram.ports[i].id = diagram.ports[j].id => i = j

\* what holds of the anchor: with port ids that are distinct over the whole
\* diagram, the side is the side of the port the root connects to
AnchorWhenDistinct ==
  (FlatLaidOut /\ PortIdsDistinct) =>
    \A k \in 1..Len(trace) :
      (/\ trace[k].kind = "port"
       /\ OwnedPorts(LinkOf(trace[k].root).portNodeId,
                     LinkOf(trace[k].root).portId) # {})
      => AtStandoff(trace[k].after[trace[k].root],
                    BoxAt(LinkOf(trace[k].root).portNodeId, trace[k].before),
                    diagram.ports[SetMin(OwnedPorts(LinkOf(trace[k].root).portNodeId,
                                                    LinkOf(trace[k].root).portId))].side)

\* a root has been placed at a port of a node that owns it, ids distinct
AnchorReached ==
  /\ FlatLaidOut /\ PortIdsDistinct
  /\ \E k \in 1..Len(trace) :
       /\ trace[k].kind = "port"
       /\ OwnedPorts(LinkOf(trace[k].root).portNodeId, LinkOf(trace[k].root).portId) # {}
       /\ LinkOf(trace[k].root).portNodeId # trace[k].root

----------------------------------------------------------------------------
(* Properties of pass 1, read off the positions the run has produced: the  *)
(* differences between the nodes of one subtree are those of pass 1,       *)
(* pass 2 moves the subtree as a whole                                     *)

\* the distance the engine in use leaves between two children
StackSpacing == IF engine = "flat" THEN Px(childSpacing) ELSE Px(CHILD_SPACING)

\* the containers whose children the last run has stacked
StackedContainers ==
  {id \in Declared(ast) :
     /\ ast.children[id] # << >>
     /\ id \in PlacedRoots \/ Stacked(id)}

\* the children of c stand in one column: at the X of c when pass 1 has
\* positioned c itself, and at one X when c is a root, which pass 1 takes to
\* be at the temporary origin
InColumn(c) ==
  \A i \in 1..Len(ast.children[c]) :
    IF Stacked(c) THEN Positions[ast.children[c][i]].x = Positions[c].x
    ELSE Positions[ast.children[c][i]].x = Positions[ast.children[c][1]].x

\* C24: in every container all children are at the container's X, and every
\* child after the first is at Y_i = Y_(i-1) + height_(i-1)/2 + spacing +
\* height_i/2, the heights being those of the children's bounding boxes.
C24_VerticalStack ==
  LaidOut =>
    \A c \in StackedContainers :
      /\ InColumn(c)
      /\ \A i \in 2..Len(ast.children[c]) :
           2 * Positions[ast.children[c][i]].y =
             2 * Positions[ast.children[c][i - 1]].y
               + BoundsOf(ast.children[c][i - 1]).height
               + 2 * StackSpacing
               + BoundsOf(ast.children[c][i]).height

\* what the stack does: a child after the first is put where the box of the
\* child before it ends plus the spacing; its own half height is not added
StackAsBuilt ==
  LaidOut =>
    \A c \in StackedContainers :
      /\ InColumn(c)
      /\ \A i \in 2..Len(ast.children[c]) :
           2 * Positions[ast.children[c][i]].y =
             2 * Positions[ast.children[c][i - 1]].y
               + BoundsOf(ast.children[c][i - 1]).height
               + 2 * StackSpacing

\* a container with a second child has been stacked by either engine
StackReached ==
  /\ LaidOut
  /\ \E c \in StackedContainers : Len(ast.children[c]) >= 2 /\ Stacked(c)
====
